---------------------------- MODULE Spec2Model ----------------------------
(* A model of the screenshot tool's redaction pipeline                     *)
(* (src/src/features/screenshot/processing.py), of the capture/storage     *)
(* handlers that call it (src/src/app.py), of the settings window, the     *)
(* global hotkeys (src/src/core/hotkeys.py) and the secrets of EnvManager  *)
(* (src/src/config/env_manager.py).                                        *)
(*                                                                         *)
(* Conventions.  A text is a sequence of one-character strings.  An OCR    *)
(* confidence is an integer number of hundredths (0.6 is 60).  A bitmap is *)
(* a sequence of rows, each a sequence of pixel values; the code's 0-based *)
(* pixel (x, y) is bitmap[y + 1][x + 1].  A box <<x_min, y_min, x_max,     *)
(* y_max>> is half open, as the numpy slice [y_min:y_max, x_min:x_max].    *)
EXTENDS Integers, Sequences, FiniteSets, TLC

VARIABLES
    config,             \* config_manager's values: [enable_blurring]
    OCR_READER,         \* processing.OCR_READER: "None" or "Reader"
    screenshots,        \* ScreenshotApp.screenshots
    screenshot_titles,  \* ScreenshotApp.screenshot_titles
    dialog,             \* the dialog the last handler showed, or "none"
    BLUR_KERNEL,        \* processing.BLUR_KERNEL, loaded once at import
    BLUR_INTENSITY,     \* processing.BLUR_INTENSITY, loaded with it
    call,               \* what the last call of an operation did (observation)
    pc,                 \* which operation ran last
    self,               \* the other attributes of the ScreenshotApp object
    threads,            \* the worker and listener threads started so far
    keyboard,           \* the hotkeys registered with the keyboard library
    environ,            \* os.environ: the value of each name, or absent
    env_file            \* the lines of the file self.env_file of EnvManager

vars == <<config, OCR_READER, screenshots, screenshot_titles, dialog, BLUR_KERNEL,
          BLUR_INTENSITY, call, pc, self, threads, keyboard, environ, env_file>>

\* The variables only the specifications of the application object use.
app_vars == <<self, threads, keyboard, environ, env_file>>

\* The process environment and the .env file.
env_vars == <<environ, env_file>>

\* Python's None as the value of OCR_READER.
None == "None"

\* Python's None where an image is expected (Optional[Image.Image]): no
\* bitmap has zero rows.
NoImage == <<>>

\* The application object is not part of the specification.
NoEnv == environ = None /\ env_file = None

NoApp == self = None /\ threads = None /\ keyboard = None /\ NoEnv

\* ConfigManager.get_boolean(section, key, fallback) on the raw value of the
\* option as configparser holds it; "" stands for an absent option.  A value
\* that is no boolean word makes getboolean raise ValueError, which
\* get_boolean answers with the fallback.
get_boolean(value, fallback) ==
    IF value \in {"1", "yes", "true", "on", "True"} THEN TRUE
    ELSE IF value \in {"0", "no", "false", "off", "False"} THEN FALSE
    ELSE fallback

-----------------------------------------------------------------------------
(* Texts: str.isdigit, str.lower, str.strip, and the substring test `in`.  *)

Digits == {"0", "1", "2", "3", "4", "5", "6", "7", "8", "9"}

\* The digits in the order of their values.
Digits_seq == <<"0", "1", "2", "3", "4", "5", "6", "7", "8", "9">>

Whitespace == {" ", "\t", "\n"}

UpperCase == <<"A", "B", "C", "D", "E", "F", "G", "H", "I", "J", "K", "L", "M",
               "N", "O", "P", "Q", "R", "S", "T", "U", "V", "W", "X", "Y", "Z">>

LowerCase == <<"a", "b", "c", "d", "e", "f", "g", "h", "i", "j", "k", "l", "m",
               "n", "o", "p", "q", "r", "s", "t", "u", "v", "w", "x", "y", "z">>

\* str.lower on one character: an upper-case letter maps to its lower-case
\* letter, every other character to itself.
LowerChar(c) ==
    IF \E i \in 1..26 : UpperCase[i] = c
    THEN LowerCase[CHOOSE i \in 1..26 : UpperCase[i] = c]
    ELSE c

lower(text) == [i \in 1..Len(text) |-> LowerChar(text[i])]

\* str.isdigit: False on the empty string, else every character a digit.
isdigit(text) == Len(text) > 0 /\ \A i \in 1..Len(text) : text[i] \in Digits

RECURSIVE lstrip(_)
lstrip(text) ==
    IF Len(text) > 0 /\ text[1] \in Whitespace THEN lstrip(Tail(text)) ELSE text

RECURSIVE rstrip(_)
rstrip(text) ==
    IF Len(text) > 0 /\ text[Len(text)] \in Whitespace
    THEN rstrip(SubSeq(text, 1, Len(text) - 1))
    ELSE text

strip(text) == rstrip(lstrip(text))

\* Python's `label in text`: label occurs as a contiguous substring.
Contains(label, text) ==
    \E i \in 0..(Len(text) - Len(label)) : SubSeq(text, i + 1, i + Len(label)) = label

\* str.split(): the maximal runs of non-whitespace characters.
RECURSIVE split(_)
split(text) ==
    LET t == lstrip(text) IN
    IF Len(t) = 0 THEN {}
    ELSE LET n == IF \E i \in 1..Len(t) : t[i] \in Whitespace
                  THEN (CHOOSE i \in 1..Len(t) :
                            /\ t[i] \in Whitespace
                            /\ \A j \in 1..(i - 1) : t[j] \notin Whitespace) - 1
                  ELSE Len(t)
         IN {SubSeq(t, 1, n)} \cup split(SubSeq(t, n + 1, Len(t)))

-----------------------------------------------------------------------------
(* The classification of one EasyOCR result (bbox, text, prob) inside      *)
(* blur_sensitive_data's loop.                                             *)

sensitive_labels == {
    <<"a", "d", "d", "r", "e", "s", "s">>,
    <<"c", "c">>,
    <<"c", "r", "e", "d", "i", "t">>,
    <<"c", "a", "r", "d">>,
    <<"n", "u", "m", "b", "e", "r">>,
    <<"z", "i", "p">>,
    <<"p", "o", "s", "t", "c", "o", "d", "e">>,
    <<"s", "s", "n">>,
    <<"s", "o", "c", "i", "a", "l">>,
    <<"s", "e", "c", "u", "r", "i", "t", "y">>,
    <<"p", "a", "s", "s", "p", "o", "r", "t">>,
    <<"d", "r", "i", "v", "e", "r">>,
    <<"l", "i", "c", "e", "n", "s", "e">>,
    <<"d", "l">>,
    <<"d", "o", "b">>,
    <<"b", "i", "r", "t", "h">>}

\* The confidence threshold of strategy 1, 0.6, in hundredths.
NumericConfidence == 60

\* Strategy 1 with the threshold included (prob >= 0.6).
numeric_rule_inclusive(text, prob) == isdigit(text) /\ prob >= NumericConfidence

\* Strategy 1: text.isdigit() and prob > 0.6
numeric_rule(text, prob) == isdigit(text) /\ prob > NumericConfidence

\* Strategy 2 matching whole words only (label in text_lower.split()).
keyword_rule_words(text_lower) ==
    \E label \in sensitive_labels : label \in split(text_lower)

\* Strategy 2: any(label in text_lower for label in sensitive_labels)
keyword_rule(text_lower) ==
    \E label \in sensitive_labels : Contains(label, text_lower)

\* The decision with strategy 1 taking either test (isdigit or prob > 0.6).
blur_this_box_confident(text, prob) ==
    IF isdigit(text) \/ prob > NumericConfidence THEN "numeric"
    ELSE IF keyword_rule(strip(lower(text))) THEN "keyword"
    ELSE "none"

\* The loop body's decision: which strategy set blur_this_box, or "none".
\* Strategy 2 is tried only when strategy 1 did not mark the box.
blur_this_box(text, prob) ==
    LET text_lower == strip(lower(text)) IN
    IF numeric_rule(text, prob) THEN "numeric"
    ELSE IF keyword_rule(text_lower) THEN "keyword"
    ELSE "none"

-----------------------------------------------------------------------------
(* Bitmaps and cv2.GaussianBlur.                                           *)

Max(a, b) == IF a >= b THEN a ELSE b

Min(a, b) == IF a <= b THEN a ELSE b

Height(image_np) == Len(image_np)

Width(image_np) == Len(image_np[1])

\* cv2's default border, BORDER_REFLECT_101: the index p of a row or column
\* of length len mirrored at the edges without repeating the edge pixel.
RECURSIVE Reflect101(_, _)
Reflect101(p, len) ==
    IF len = 1 THEN 0
    ELSE IF p < 0 THEN Reflect101(-p, len)
    ELSE IF p >= len THEN Reflect101(2 * (len - 1) - p, len)
    ELSE p

\* The 8-bit fixed-point weights of a Gaussian kernel of odd size k, in
\* 256ths.  With BLUR_INTENSITY = 35 the standard deviation is much larger
\* than the kernel, so the weights are equal up to rounding, the remainder
\* going to the centre tap.
GaussianKernel(k) ==
    [i \in 1..k |-> IF i = (k + 1) \div 2 THEN 256 - (k - 1) * (256 \div k)
                    ELSE 256 \div k]

\* The sequence f itself, as a tuple: TLC then computes its elements once
\* instead of at every application.
Computed(f) == f \o << >>

\* The sum of the integers s[i], s[i + 1], ..., s[Len(s)].
RECURSIVE SumFrom(_, _)
SumFrom(s, i) == IF i > Len(s) THEN 0 ELSE s[i] + SumFrom(s, i + 1)

\* cv2.GaussianBlur(view, ksize, sigma) on an 8-bit array: a separable
\* convolution, a row pass then a column pass, rounded once at the end.
\* ksize is (width, height).  Only the pixels of view are read.
GaussianBlur(view, ksize) ==
    LET rh == Height(view)
        rw == Width(view)
        wx == Computed(GaussianKernel(ksize[1]))
        wy == Computed(GaussianKernel(ksize[2]))
        cx == (ksize[1] - 1) \div 2
        cy == (ksize[2] - 1) \div 2
        rowpass == Computed([y \in 1..rh |-> Computed([x \in 1..rw |->
            SumFrom(Computed([i \in 1..ksize[1] |->
                wx[i] * view[y][Reflect101(x - 1 + i - 1 - cx, rw) + 1]]), 1)])])
    IN Computed([y \in 1..rh |-> Computed([x \in 1..rw |->
           (SumFrom(Computed([j \in 1..ksize[2] |->
                wy[j] * rowpass[Reflect101(y - 1 + j - 1 - cy, rh) + 1][x]]), 1)
            + 32768) \div 65536])])

\* image_np[y_min:y_max, x_min:x_max] for 0 <= min < max <= size.
Slice(image_np, x_min, y_min, x_max, y_max) ==
    Computed([y \in 1..(y_max - y_min) |-> Computed([x \in 1..(x_max - x_min) |->
        image_np[y_min + y][x_min + x]])])

\* image_np[y_min:y_max, x_min:x_max] = blurred
SliceAssign(image_np, x_min, y_min, x_max, y_max, blurred) ==
    Computed([y \in 1..Height(image_np) |-> Computed([x \in 1..Width(image_np) |->
        IF y_min < y /\ y <= y_max /\ x_min < x /\ x <= x_max
        THEN blurred[y - y_min][x - x_min]
        ELSE image_np[y][x]])])

\* blur_region with x_max and y_max taken as inclusive (the slice one pixel
\* too wide and too tall).
blur_region_inclusive(image_np, x_min, y_min, x_max, y_max) ==
    IF x_min >= x_max \/ y_min >= y_max THEN image_np
    ELSE LET x0 == Max(0, x_min)
             y0 == Max(0, y_min)
             x1 == Min(Width(image_np), x_max + 1)
             y1 == Min(Height(image_np), y_max + 1)
         IN IF x0 >= x1 \/ y0 >= y1 THEN image_np
            ELSE SliceAssign(image_np, x0, y0, x1, y1,
                     GaussianBlur(Slice(image_np, x0, y0, x1, y1), BLUR_KERNEL))

\* blur_region that puts a reversed box in order instead of rejecting it.
blur_region_reorder(image_np, x_min, y_min, x_max, y_max) ==
    LET x0 == Max(0, Min(x_min, x_max))
        y0 == Max(0, Min(y_min, y_max))
        x1 == Min(Width(image_np), Max(x_min, x_max))
        y1 == Min(Height(image_np), Max(y_min, y_max))
    IN IF x0 >= x1 \/ y0 >= y1 THEN image_np
       ELSE SliceAssign(image_np, x0, y0, x1, y1,
                GaussianBlur(Slice(image_np, x0, y0, x1, y1), BLUR_KERNEL))

\* blur_region.  The kernel is the module global BLUR_KERNEL.  After the
\* two checks the view is never empty, so the code's size test always passes.
blur_region(image_np, x_min, y_min, x_max, y_max) ==
    IF x_min >= x_max \/ y_min >= y_max THEN image_np
    ELSE LET h == Height(image_np)
             w == Width(image_np)
             x0 == Max(0, x_min)
             y0 == Max(0, y_min)
             x1 == Min(w, x_max)
             y1 == Min(h, y_max)
         IN IF x0 >= x1 \/ y0 >= y1 THEN image_np
            ELSE SliceAssign(image_np, x0, y0, x1, y1,
                     GaussianBlur(Slice(image_np, x0, y0, x1, y1), BLUR_KERNEL))

-----------------------------------------------------------------------------
(* The screens the tool may capture.  EasyOCR and Tesseract are outside    *)
(* the repository: reader.readtext is modelled by a table from the bitmap  *)
(* to the results (bbox, text, prob) it reports for it, bbox being four    *)
(* corner points, and pytesseract.image_to_data by a table from the bitmap *)
(* to the words it reports, each with conf, text, left, top, width and     *)
(* height.                                                                 *)

Quad(x_min, y_min, x_max, y_max) ==
    <<<<x_min, y_min>>, <<x_max, y_min>>, <<x_max, y_max>>, <<x_min, y_max>>>>

TextCardNumber == <<"4", "1", "1", "1", "1", "1", "1", "1", "1", "1", "1", "1", "1", "1", "1", "1">>

TextDob == <<"D", "O", "B", ":", " ", "1", "9", "9", "0", "-", "0", "1", "-", "0", "1">>

TextCardigan == <<"c", "a", "r", "d", "i", "g", "a", "n">>

TextAccount == <<"A", "c", "c", "o", "u", "n", "t", ":">>

TextNumber == <<"1", "2", "3", "4", "5", "6", "7", "8">>

TextHello == <<"H", "e", "l", "l", "o">>

TextMixed == <<"1", "2", "a", "4">>

TextSsn == <<"S", "S", "N", ":">>

\* A word of image_to_data.
Word(conf, text, left, top, width, height) ==
    [conf |-> conf, text |-> text, left |-> left, top |-> top,
     width |-> width, height |-> height]

\* "Account: 12345678": the label on the left, the number on the right.
SceneAccount ==
    [bitmap |-> << <<200, 0, 200, 0, 50, 0, 200, 0, 200>>,
                   <<0, 200, 0, 200, 50, 200, 0, 200, 0>> >>,
     ocr |-> << [bbox |-> Quad(0, 0, 2, 2), text |-> TextAccount, prob |-> 95],
                [bbox |-> Quad(7, 0, 9, 2), text |-> TextNumber, prob |-> 90] >>,
     tess |-> << Word(96, TextAccount, 0, 0, 2, 2),
                 Word(91, <<" ">> \o TextNumber, 7, 0, 2, 2) >>]

\* Text that matches neither strategy: a word, a mixed token, and a number
\* that EasyOCR reads with confidence exactly 0.6 and Tesseract with 60.
SceneHello ==
    [bitmap |-> << <<10, 250, 10, 250, 90, 250, 10, 250, 10>>,
                   <<250, 10, 250, 10, 90, 10, 250, 10, 250>> >>,
     ocr |-> << [bbox |-> Quad(0, 0, 3, 1), text |-> TextHello, prob |-> 99],
                [bbox |-> Quad(4, 0, 6, 2), text |-> TextMixed, prob |-> 99],
                [bbox |-> Quad(7, 1, 9, 2), text |-> TextNumber, prob |-> 60] >>,
     tess |-> << Word(95, TextHello, 0, 0, 3, 1),
                 Word(90, TextMixed, 4, 0, 2, 2),
                 Word(60, TextNumber, 7, 1, 2, 1) >>]

\* A form: a date of birth read with low confidence in a slanted box, a
\* card number, and the word "cardigan".
SceneForm ==
    [bitmap |-> << <<0, 30, 60, 90, 120, 150, 180, 210, 240>>,
                   <<240, 0, 240, 0, 240, 0, 240, 0, 240>> >>,
     ocr |-> << [bbox |-> <<<<5, 0>>, <<6, 0>>, <<7, 1>>, <<6, 1>>>>,
                 text |-> TextDob, prob |-> 30],
                [bbox |-> Quad(0, 1, 1, 2), text |-> TextCardNumber, prob |-> 90],
                [bbox |-> Quad(8, 1, 9, 2), text |-> TextCardigan, prob |-> 70] >>,
     tess |-> << Word(40, <<"1", "9", "9", "0">>, 5, 0, 2, 1),
                 Word(92, TextCardNumber, 0, 1, 1, 1),
                 Word(80, TextCardigan, 8, 1, 1, 1) >>]

\* A screen without text.
SceneBlank ==
    [bitmap |-> << <<0, 255, 0, 255, 0, 255, 0, 255, 0>>,
                   <<255, 0, 255, 0, 255, 0, 255, 0, 255>> >>,
     ocr |-> << >>,
     tess |-> << >>]

\* Tokens at the edges of the number detector's test, as Tesseract reports
\* them: a number at confidence 50, one at 49, one with spaces around it,
\* a mixed token, and the row of the enclosing block (confidence -1, no
\* text).  EasyOCR reads nothing here.
SceneDigits ==
    [bitmap |-> << <<5, 205, 15, 215, 25, 225, 35, 235, 45>>,
                   <<245, 55, 155, 65, 165, 75, 175, 85, 185>> >>,
     ocr |-> << >>,
     tess |-> << Word(-1, << >>, 0, 0, 9, 2),
                 Word(50, TextNumber, 0, 0, 2, 1),
                 Word(49, <<"4", "1", "1", "1">>, 3, 0, 2, 1),
                 Word(100, <<" ", "4", "2", " ">>, 6, 0, 2, 2),
                 Word(99, TextMixed, 3, 1, 2, 1) >>]

\* A number under its label "SSN:", read as two results whose padded boxes
\* are the same box, a greeting, and a card number whose padded box
\* overlaps theirs.
SceneTwice ==
    [bitmap |-> << <<255, 255, 255, 0, 0, 0, 0, 0, 255>>,
                   <<255, 255, 0, 0, 0, 0, 0, 255, 0>> >>,
     ocr |-> << [bbox |-> Quad(1, 0, 3, 1), text |-> TextNumber, prob |-> 90],
                [bbox |-> Quad(0, 0, 3, 1), text |-> TextSsn, prob |-> 80],
                [bbox |-> Quad(2, 0, 5, 2), text |-> TextHello, prob |-> 99],
                [bbox |-> Quad(5, 1, 6, 2), text |-> TextCardNumber, prob |-> 95] >>,
     tess |-> << Word(90, TextNumber, 1, 0, 2, 1),
                 Word(80, TextSsn, 0, 0, 3, 1) >>]

Scenes == {SceneAccount, SceneHello, SceneForm, SceneBlank, SceneDigits, SceneTwice}

\* reader.readtext(image_cv_rgb, detail=1, paragraph=False)
readtext(image_np) ==
    IF \E s \in Scenes : s.bitmap = image_np
    THEN (CHOOSE s \in Scenes : s.bitmap = image_np).ocr
    ELSE << >>

\* pytesseract.image_to_data(image_cv, output_type=Output.DICT)
image_to_data(image_np) ==
    IF \E s \in Scenes : s.bitmap = image_np
    THEN (CHOOSE s \in Scenes : s.bitmap = image_np).tess
    ELSE << >>

-----------------------------------------------------------------------------
(* blur_numbers_pytesseract.                                               *)

\* The least confidence at which a word of Tesseract is looked at.
TesseractConfidence == 50

\* The loop of blur_numbers_pytesseract that skips a word whose confidence
\* is 50 or lower.
RECURSIVE numbers_loop_strict(_, _, _)
numbers_loop_strict(image_np, data, i) ==
    IF i > Len(data)
    THEN [image_np |-> image_np, regions |-> << >>]
    ELSE LET w == data[i]
             marked == w.conf > TesseractConfidence /\ isdigit(strip(w.text))
             box == <<w.left, w.top, w.left + w.width, w.top + w.height>>
             next_np == IF marked
                        THEN blur_region(image_np, box[1], box[2], box[3], box[4])
                        ELSE image_np
         IN CHOOSE done \in
                {[image_np |-> rest.image_np,
                  regions |-> (IF marked THEN <<box>> ELSE << >>) \o rest.regions] :
                 rest \in {numbers_loop_strict(next_np, data, i + 1)}} : TRUE

\* The loop over the words of data from word i on: the boxes blurred and
\* the working copy image_np after them.
RECURSIVE numbers_loop(_, _, _)
numbers_loop(image_np, data, i) ==
    IF i > Len(data)
    THEN [image_np |-> image_np, regions |-> << >>]
    ELSE LET w == data[i]
             marked == w.conf >= TesseractConfidence /\ isdigit(strip(w.text))
             box == <<w.left, w.top, w.left + w.width, w.top + w.height>>
             next_np == IF marked
                        THEN blur_region(image_np, box[1], box[2], box[3], box[4])
                        ELSE image_np
         IN CHOOSE done \in
                {[image_np |-> rest.image_np,
                  regions |-> (IF marked THEN <<box>> ELSE << >>) \o rest.regions] :
                 rest \in {numbers_loop(next_np, data, i + 1)}} : TRUE

\* The classes of exception a failing step may raise; each derives from
\* Exception.  "ValueError" stands for any class without a handler of its
\* own, cv2.error included.
ExceptionKinds == {"ImportError", "RuntimeError", "ValueError", "TesseractNotFoundError"}

\* An except clause for class handler catches an exception of class kind.
Catches(handler, kind) == handler = "Exception" \/ handler = kind

\* The exceptions of kinds that the except clauses handlers let through.
Uncaught(handlers, kinds) ==
    {kind \in kinds : \A handler \in handlers : ~Catches(handler, kind)}

\* np.asarray(image) on an array: a view that shares the image's pixels.
np_asarray(image) == [pixels |-> image, shares |-> TRUE]

\* np.array(image): a new array holding a copy of the image's pixels.
np_array(image) == [pixels |-> image, shares |-> FALSE]

\* The outcomes of the try block of blur_numbers_pytesseract: every step
\* returns, image_to_data raises TesseractNotFoundError, or a step raises
\* another exception.
TesseractOutcomes == {"ok", "not_found", "error"}

\* blur_numbers_pytesseract without its first clause, except
\* pytesseract.TesseractNotFoundError: the last clause returns None.
blur_numbers_pytesseract_none(image, tesseract) ==
    LET handlers == {"Exception"}
        image_np == np_array(image)
    IN
    IF ~get_boolean(config.enable_blurring, FALSE)
    THEN [ret |-> image, detectors |-> {}, regions |-> << >>,
          escapes |-> {}, original |-> image]
    ELSE IF tesseract \in {"not_found", "error"}
    THEN [ret |-> NoImage, detectors |-> {}, regions |-> << >>,
          escapes |-> Uncaught(handlers, ExceptionKinds), original |-> image]
    ELSE CHOOSE result \in
           {[ret |-> done.image_np, detectors |-> {"pytesseract"},
             regions |-> done.regions, escapes |-> {},
             original |-> IF image_np.shares THEN done.image_np ELSE image] :
            done \in {numbers_loop(image_np.pixels, image_to_data(image), 1)}} : TRUE

\* blur_numbers_pytesseract(image).  The result: ret, the image returned
\* or NoImage for None; detectors, the OCR engines run; regions, the boxes
\* blurred; escapes, the exceptions that leave the function; original, the
\* pixels of the caller's image after the call.
blur_numbers_pytesseract(image, tesseract) ==
    LET handlers == {"TesseractNotFoundError", "Exception"}
        image_np == np_array(image)
    IN
    IF ~get_boolean(config.enable_blurring, FALSE)
    THEN [ret |-> image, detectors |-> {}, regions |-> << >>,
          escapes |-> {}, original |-> image]
    ELSE IF tesseract = "not_found"
    THEN [ret |-> image, detectors |-> {}, regions |-> << >>,
          escapes |-> Uncaught(handlers, {"TesseractNotFoundError"}),
          original |-> image]
    ELSE IF tesseract = "error"
    THEN [ret |-> NoImage, detectors |-> {}, regions |-> << >>,
          escapes |-> Uncaught(handlers, ExceptionKinds \ {"TesseractNotFoundError"}),
          original |-> image]
    ELSE CHOOSE result \in
           {[ret |-> done.image_np, detectors |-> {"pytesseract"},
             regions |-> done.regions, escapes |-> {},
             original |-> IF image_np.shares THEN done.image_np ELSE image] :
            done \in {numbers_loop(image_np.pixels, image_to_data(image), 1)}} : TRUE

-----------------------------------------------------------------------------
(* get_ocr_reader and blur_sensitive_data.                                 *)

\* get_ocr_reader() without the test of line 46: easyocr.Reader(['en']) is
\* called on every call and its result, if any, assigned.
get_ocr_reader_always(init_ok) ==
    IF init_ok THEN [raised |-> FALSE, reader |-> "Reader", constructed |-> TRUE]
    ELSE [raised |-> TRUE, reader |-> None, constructed |-> TRUE]

\* get_ocr_reader().  init_ok says whether easyocr.Reader(['en']) returns
\* (otherwise it raises and the global keeps its value None); constructed
\* says whether easyocr.Reader was called at all.
get_ocr_reader(init_ok) ==
    IF OCR_READER = None
    THEN IF init_ok THEN [raised |-> FALSE, reader |-> "Reader", constructed |-> TRUE]
         ELSE [raised |-> TRUE, reader |-> None, constructed |-> TRUE]
    ELSE [raised |-> FALSE, reader |-> OCR_READER, constructed |-> FALSE]

\* The padding added around a marked box.
padding == 2

MinOf(S) == CHOOSE m \in S : \A n \in S : m <= n

MaxOf(S) == CHOOSE m \in S : \A n \in S : m >= n

\* The box of a marked result expanded by the padding on all four sides,
\* without the max(0, ...) of lines 249 and 250.
padded_box_unclamped(bbox) ==
    LET xs == {bbox[k][1] : k \in 1..Len(bbox)}
        ys == {bbox[k][2] : k \in 1..Len(bbox)}
    IN <<MinOf(xs) - padding, MinOf(ys) - padding,
         MaxOf(xs) + padding, MaxOf(ys) + padding>>

\* The box handed to blur_region for a marked result: min and max over the
\* corner points, then the padding.
padded_box(bbox) ==
    LET xs == {bbox[k][1] : k \in 1..Len(bbox)}
        ys == {bbox[k][2] : k \in 1..Len(bbox)}
    IN <<Max(0, MinOf(xs) - padding), Max(0, MinOf(ys) - padding),
         MaxOf(xs) + padding, MaxOf(ys) + padding>>

\* The loop with the detector run again on the working copy before each
\* result is looked at, instead of once on the input before the loop.
RECURSIVE redact_loop_rescan(_, _, _)
redact_loop_rescan(image_np, ocr_results, i) ==
    LET rescanned == readtext(image_np) IN
    IF i > Len(rescanned)
    THEN [image_np |-> image_np, rules |-> << >>, regions |-> << >>,
          boxes_blurred |-> 0]
    ELSE LET rule == blur_this_box(rescanned[i].text, rescanned[i].prob)
             box == padded_box(rescanned[i].bbox)
             next_np == IF rule = "none" THEN image_np
                        ELSE blur_region(image_np, box[1], box[2], box[3], box[4])
         IN CHOOSE done \in
                {[image_np |-> rest.image_np,
                  rules |-> <<rule>> \o rest.rules,
                  regions |-> (IF rule = "none" THEN << >> ELSE <<box>>) \o rest.regions,
                  boxes_blurred |-> (IF rule = "none" THEN 0 ELSE 1) + rest.boxes_blurred] :
                 rest \in {redact_loop_rescan(next_np, ocr_results, i + 1)}} : TRUE

\* The loop with each distinct box blurred once: a marked result whose
\* padded box an earlier marked result already had is passed over.
RECURSIVE redact_loop_dedup(_, _, _)
redact_loop_dedup(image_np, ocr_results, i) ==
    IF i > Len(ocr_results)
    THEN [image_np |-> image_np, rules |-> << >>, regions |-> << >>,
          boxes_blurred |-> 0]
    ELSE LET rule == blur_this_box(ocr_results[i].text, ocr_results[i].prob)
             box == padded_box(ocr_results[i].bbox)
             seen == \E j \in 1..(i - 1) :
                        /\ blur_this_box(ocr_results[j].text, ocr_results[j].prob) # "none"
                        /\ padded_box(ocr_results[j].bbox) = box
             skip == rule = "none" \/ seen
             next_np == IF skip THEN image_np
                        ELSE blur_region(image_np, box[1], box[2], box[3], box[4])
         IN CHOOSE done \in
                {[image_np |-> rest.image_np,
                  rules |-> <<rule>> \o rest.rules,
                  regions |-> (IF skip THEN << >> ELSE <<box>>) \o rest.regions,
                  boxes_blurred |-> (IF skip THEN 0 ELSE 1) + rest.boxes_blurred] :
                 rest \in {redact_loop_dedup(next_np, ocr_results, i + 1)}} : TRUE

\* The loop over ocr_results from result i on: the decision of each result,
\* the boxes blurred, their count boxes_blurred, and the working copy
\* image_np after them.
RECURSIVE redact_loop(_, _, _)
redact_loop(image_np, ocr_results, i) ==
    IF i > Len(ocr_results)
    THEN [image_np |-> image_np, rules |-> << >>, regions |-> << >>,
          boxes_blurred |-> 0]
    ELSE LET rule == blur_this_box(ocr_results[i].text, ocr_results[i].prob)
             box == padded_box(ocr_results[i].bbox)
             next_np == IF rule = "none" THEN image_np
                        ELSE blur_region(image_np, box[1], box[2], box[3], box[4])
         IN CHOOSE done \in
                {[image_np |-> rest.image_np,
                  rules |-> <<rule>> \o rest.rules,
                  regions |-> (IF rule = "none" THEN << >> ELSE <<box>>) \o rest.regions,
                  boxes_blurred |-> (IF rule = "none" THEN 0 ELSE 1) + rest.boxes_blurred] :
                 rest \in {redact_loop(next_np, ocr_results, i + 1)}} : TRUE

\* blur_sensitive_data that goes on with zero results when the reader
\* cannot be initialized, returning the copy of the image.
blur_sensitive_data_degrade(image, init_ok, read_ok) ==
    IF ~get_boolean(config.enable_blurring, FALSE)
    THEN [ret |-> image, reader |-> OCR_READER, constructed |-> FALSE, detectors |-> {},
          rules |-> << >>, regions |-> << >>, boxes_blurred |-> None, escapes |-> {}, original |-> image]
    ELSE LET r == get_ocr_reader(init_ok) IN
         IF r.raised \/ ~read_ok
         THEN [ret |-> IF r.raised THEN image ELSE NoImage, reader |-> r.reader, constructed |-> r.constructed,
               detectors |-> {}, rules |-> << >>, regions |-> << >>, boxes_blurred |-> None,
               escapes |-> {}, original |-> image]
         ELSE LET done == redact_loop(image, readtext(image), 1)
              IN [ret |-> done.image_np, reader |-> r.reader, constructed |-> r.constructed,
                  detectors |-> {"easyocr"},
                  rules |-> done.rules, regions |-> done.regions,
                  boxes_blurred |-> done.boxes_blurred,
                  escapes |-> {}, original |-> image]

\* blur_sensitive_data that also runs the Tesseract number detector, on
\* the image before the EasyOCR loop.
blur_sensitive_data_both(image, init_ok, read_ok) ==
    IF ~get_boolean(config.enable_blurring, FALSE)
    THEN [ret |-> image, reader |-> OCR_READER, constructed |-> FALSE, detectors |-> {},
          rules |-> << >>, regions |-> << >>, boxes_blurred |-> None, escapes |-> {}, original |-> image]
    ELSE LET r == get_ocr_reader(init_ok) IN
         IF r.raised \/ ~read_ok
         THEN [ret |-> NoImage, reader |-> r.reader, constructed |-> r.constructed, detectors |-> {},
               rules |-> << >>, regions |-> << >>, boxes_blurred |-> None, escapes |-> {},
               original |-> image]
         ELSE LET numbers == numbers_loop(image, image_to_data(image), 1)
                  done == redact_loop(numbers.image_np, readtext(image), 1)
              IN [ret |-> done.image_np, reader |-> r.reader, constructed |-> r.constructed,
                  detectors |-> {"pytesseract", "easyocr"},
                  rules |-> done.rules,
                  regions |-> numbers.regions \o done.regions,
                  boxes_blurred |-> Len(numbers.regions) + done.boxes_blurred,
                  escapes |-> {}, original |-> image]

\* blur_sensitive_data that skips the enable_blurring test.
blur_sensitive_data_always(image, init_ok, read_ok) ==
    LET r == get_ocr_reader(init_ok) IN
    IF r.raised \/ ~read_ok
    THEN [ret |-> NoImage, reader |-> r.reader, constructed |-> r.constructed, detectors |-> {},
          rules |-> << >>, regions |-> << >>, boxes_blurred |-> None, escapes |-> {}, original |-> image]
    ELSE LET done == redact_loop(image, readtext(image), 1)
         IN [ret |-> done.image_np, reader |-> r.reader, constructed |-> r.constructed,
             detectors |-> {"easyocr"},
             rules |-> done.rules, regions |-> done.regions,
                  boxes_blurred |-> done.boxes_blurred,
             escapes |-> {}, original |-> image]

\* blur_sensitive_data without its last clause, except Exception.
blur_sensitive_data_uncaught(image, init_ok, read_ok) ==
    LET handlers == {"ImportError", "RuntimeError"}
    IN
    IF ~get_boolean(config.enable_blurring, FALSE)
    THEN [ret |-> image, reader |-> OCR_READER, constructed |-> FALSE, detectors |-> {},
          rules |-> << >>, regions |-> << >>, boxes_blurred |-> None, escapes |-> {}, original |-> image]
    ELSE LET r == get_ocr_reader(init_ok) IN
         IF r.raised \/ ~read_ok
         THEN [ret |-> NoImage, reader |-> r.reader, constructed |-> r.constructed, detectors |-> {},
               rules |-> << >>, regions |-> << >>, boxes_blurred |-> None,
               escapes |-> Uncaught(handlers,
                              IF r.raised THEN {"RuntimeError"} ELSE ExceptionKinds),
               original |-> image]
         ELSE LET done == redact_loop(image, readtext(image), 1)
              IN [ret |-> done.image_np, reader |-> r.reader, constructed |-> r.constructed,
                  detectors |-> {"easyocr"},
                  rules |-> done.rules, regions |-> done.regions,
                  boxes_blurred |-> done.boxes_blurred,
                  escapes |-> {}, original |-> image]

\* blur_sensitive_data(image).  init_ok says whether easyocr.Reader returns
\* when get_ocr_reader calls it; read_ok says whether every later step of
\* the try block (the conversions, reader.readtext, the loop with its
\* blur_region calls, Image.fromarray) returns; otherwise one of them raises
\* an exception of some class of ExceptionKinds.
\* The result: ret, the image returned or NoImage for None; reader, the
\* value left in OCR_READER; detectors, the OCR engines run; rules and
\* regions, the loop's decisions and the boxes it blurred; boxes_blurred,
\* the count the function logs when the loop is over; escapes, the
\* exceptions that leave the function; original, the pixels of the caller's
\* image after the call.
blur_sensitive_data(image, init_ok, read_ok) ==
    LET handlers == {"ImportError", "RuntimeError", "Exception"}
        image_np == np_array(image)
    IN
    IF ~get_boolean(config.enable_blurring, FALSE)
    THEN [ret |-> image, reader |-> OCR_READER, constructed |-> FALSE, detectors |-> {},
          rules |-> << >>, regions |-> << >>, boxes_blurred |-> None, escapes |-> {}, original |-> image]
    ELSE LET r == get_ocr_reader(init_ok) IN
         IF r.raised
         THEN [ret |-> NoImage, reader |-> r.reader, constructed |-> r.constructed, detectors |-> {},
               rules |-> << >>, regions |-> << >>, boxes_blurred |-> None,
               escapes |-> Uncaught(handlers, {"RuntimeError"}),
               original |-> image]
         ELSE IF ~read_ok
         THEN [ret |-> NoImage, reader |-> r.reader, constructed |-> r.constructed, detectors |-> {},
               rules |-> << >>, regions |-> << >>, boxes_blurred |-> None,
               escapes |-> Uncaught(handlers, ExceptionKinds),
               original |-> image]
         ELSE CHOOSE result \in
                {[ret |-> done.image_np, reader |-> r.reader, constructed |-> r.constructed,
                  detectors |-> {"easyocr"},
                  rules |-> done.rules, regions |-> done.regions,
                  boxes_blurred |-> done.boxes_blurred,
                  escapes |-> {},
                  original |-> IF image_np.shares THEN done.image_np ELSE image] :
                 done \in {redact_loop(image_np.pixels, readtext(image), 1)}} : TRUE

\* The raw values the option BLUR/enable_blurring may hold.
ConfigBooleans == {"True", "False", ""}

InitRedact ==
    /\ config \in {[enable_blurring |-> v] : v \in ConfigBooleans}
    /\ OCR_READER = None
    /\ screenshots = <<>>
    /\ screenshot_titles = <<>>
    /\ dialog = "none"
    /\ BLUR_KERNEL = <<15, 15>>
    /\ BLUR_INTENSITY = 35
    /\ NoApp
    /\ call = [op |-> "none"]
    /\ pc = "start"

\* One call blur_sensitive_data(image) on a captured screen.
RedactCall ==
    \E scene \in Scenes, init_ok \in BOOLEAN, read_ok \in BOOLEAN :
        \E r \in {blur_sensitive_data(scene.bitmap, init_ok, read_ok)} :
        /\ call' = [op |-> "redact", image |-> scene.bitmap,
                    reader_before |-> OCR_READER,
                    init_ok |-> init_ok, read_ok |-> read_ok,
                    ret |-> r.ret, detectors |-> r.detectors,
                    rules |-> r.rules, regions |-> r.regions,
                    boxes_blurred |-> r.boxes_blurred,
                    escapes |-> r.escapes, original |-> r.original,
                    constructed |-> r.constructed]
        /\ OCR_READER' = r.reader
        /\ pc' = "redact"
        /\ UNCHANGED <<config, screenshots, screenshot_titles, dialog, BLUR_KERNEL, BLUR_INTENSITY, app_vars>>

\* config_manager.set("BLUR", "enable_blurring", value), as the settings
\* window does when it saves.
ConfigSet ==
    \E value \in ConfigBooleans :
        /\ value # config.enable_blurring
        /\ config' = [config EXCEPT !.enable_blurring = value]
        /\ pc' = "config_set"
        /\ UNCHANGED <<OCR_READER, screenshots, screenshot_titles, dialog,
                       BLUR_KERNEL, BLUR_INTENSITY, call, app_vars>>

\* One call blur_numbers_pytesseract(image) on a captured screen.
NumbersCall ==
    \E scene \in Scenes, tesseract \in TesseractOutcomes :
        \E r \in {blur_numbers_pytesseract(scene.bitmap, tesseract)} :
        /\ call' = [op |-> "numbers", image |-> scene.bitmap,
                    tesseract |-> tesseract, ret |-> r.ret,
                    detectors |-> r.detectors, regions |-> r.regions,
                    escapes |-> r.escapes, original |-> r.original]
        /\ pc' = "numbers"
        /\ UNCHANGED <<config, OCR_READER, screenshots, screenshot_titles, dialog,
                       BLUR_KERNEL, BLUR_INTENSITY, app_vars>>

NextRedact == RedactCall \/ NumbersCall \/ ConfigSet

SpecRedact == InitRedact /\ [][NextRedact]_vars

-----------------------------------------------------------------------------
(* The inputs of the blur primitive: bitmaps of every size up to           *)
(* MaxW x MaxH whose pixels follow a pattern, and boxes whose corners      *)
(* range from one pixel before the bitmap to one pixel past it.            *)

MaxW == 3

MaxH == 2

MaxPix == 2

PatternBitmap(w, h, a) ==
    [y \in 1..h |-> [x \in 1..w |-> ((a * x * x + y) % (MaxPix + 1)) * 100]]

Bitmaps == {PatternBitmap(w, h, a) : w \in 1..MaxW, h \in 1..MaxH, a \in 0..MaxPix}

Boxes(image_np) ==
    LET xs == (-1)..(Width(image_np) + 1)
        ys == (-1)..(Height(image_np) + 1)
    IN {<<x_min, y_min, x_max, y_max>> : x_min \in xs, y_min \in ys, x_max \in xs, y_max \in ys}

\* The kernels a process may have loaded (pairs of positive odd integers).
BlurKernels == {<<3, 3>>, <<15, 15>>}

DefaultConfig == [enable_blurring |-> ""]

InitBlur ==
    /\ config = DefaultConfig
    /\ OCR_READER = None
    /\ screenshots = <<>>
    /\ screenshot_titles = <<>>
    /\ dialog = "none"
    /\ BLUR_KERNEL \in BlurKernels
    /\ BLUR_INTENSITY = 35
    /\ NoApp
    /\ call \in {[image_np |-> b] : b \in Bitmaps}
    /\ pc = "input"

\* One call blur_region(image_np, *box) on a fresh copy of the input bitmap.
BlurRegionCall ==
    /\ pc = "input"
    /\ \E box \in Boxes(call.image_np) :
        /\ call' = [image_np |-> call.image_np, box |-> box,
                    out |-> blur_region(call.image_np, box[1], box[2], box[3], box[4])]
        /\ pc' = "blur_region"
        /\ UNCHANGED <<config, OCR_READER, screenshots, screenshot_titles, dialog,
                       BLUR_KERNEL, BLUR_INTENSITY, app_vars>>

NextBlur == BlurRegionCall

SpecBlur == InitBlur /\ [][NextBlur]_vars

-----------------------------------------------------------------------------
(* Claims about blur_region, checked under SpecBlur.                       *)

\* The 0-based pixel (x, y) lies in box clamped to the w x h image.
InClampedBox(x, y, box, w, h) ==
    /\ Max(0, box[1]) <= x /\ x < Min(w, box[3])
    /\ Max(0, box[2]) <= y /\ y < Min(h, box[4])

Degenerate(box) == box[1] >= box[3] \/ box[2] >= box[4]

EmptyAfterClamping(box, w, h) ==
    Max(0, box[1]) >= Min(w, box[3]) \/ Max(0, box[2]) >= Min(h, box[4])

\* C5: blur_region changes only pixels inside the box clamped to the image:
\* the result has the input's size and every pixel outside the clamped box
\* has the value it had before the call.
C5_BlurFrame ==
    pc = "blur_region" =>
        LET h == Height(call.image_np)
            w == Width(call.image_np)
        IN /\ Height(call.out) = h
           /\ \A y \in 1..h :
                /\ Len(call.out[y]) = w
                /\ \A x \in 1..w :
                     ~InClampedBox(x - 1, y - 1, call.box, w, h)
                        => call.out[y][x] = call.image_np[y][x]

\* A call that changed a pixel inside its box while the image has pixels
\* outside the box.
C5_Witness ==
    /\ pc = "blur_region"
    /\ call.out # call.image_np
    /\ \E y \in 1..Height(call.image_np), x \in 1..Width(call.image_np) :
         ~InClampedBox(x - 1, y - 1, call.box,
                       Width(call.image_np), Height(call.image_np))

\* C6: blur_region is a no-op, returning the bitmap equal to its input, for
\* every box that is degenerate before clamping and for every box that is
\* empty after clamping to the image, negative coordinates included.
C6_BlurNoOp ==
    pc = "blur_region" =>
        ((Degenerate(call.box)
          \/ EmptyAfterClamping(call.box, Width(call.image_np), Height(call.image_np)))
            => call.out = call.image_np)

\* A box with negative corners, not degenerate before clamping and empty
\* after it, left a non-uniform bitmap as it was.
C6_Witness ==
    /\ pc = "blur_region"
    /\ call.out = call.image_np
    /\ call.box[1] < 0 /\ call.box[2] < 0
    /\ ~Degenerate(call.box)
    /\ EmptyAfterClamping(call.box, Width(call.image_np), Height(call.image_np))
    /\ \E y \in 1..Height(call.image_np), x, x2 \in 1..Width(call.image_np) :
         call.image_np[y][x] # call.image_np[y][x2]

-----------------------------------------------------------------------------
(* The inputs of the classifier: every text of up to MaxTextLen characters *)
(* over a small alphabet, the texts of the documented examples, and        *)
(* confidences on both sides of the threshold.                             *)

MaxTextLen == 3

Alphabet == {"1", "c", "C", "d", "l", " "}

RECURSIVE TextsOfLen(_)
TextsOfLen(n) ==
    IF n = 0 THEN {<<>>}
    ELSE {Append(s, c) : s \in TextsOfLen(n - 1), c \in Alphabet}

ExampleTexts == {TextCardNumber, TextDob, TextCardigan, TextAccount, TextNumber,
                 TextHello, TextMixed}

Texts == UNION {TextsOfLen(n) : n \in 0..MaxTextLen} \cup ExampleTexts

Probs == {0, 59, 60, 61, 90, 100}

InitClassify ==
    /\ config = DefaultConfig
    /\ OCR_READER = None
    /\ screenshots = <<>>
    /\ screenshot_titles = <<>>
    /\ dialog = "none"
    /\ BLUR_KERNEL = <<15, 15>>
    /\ BLUR_INTENSITY = 35
    /\ NoApp
    /\ call \in {[text |-> text, prob |-> prob] : text \in Texts, prob \in Probs}
    /\ pc = "input"

\* One pass of the loop body's decision on the result (bbox, text, prob).
ClassifyCall ==
    /\ pc = "input"
    /\ call' = [text |-> call.text, prob |-> call.prob,
                rule |-> blur_this_box(call.text, call.prob)]
    /\ pc' = "classify"
    /\ UNCHANGED <<config, OCR_READER, screenshots, screenshot_titles, dialog,
                   BLUR_KERNEL, BLUR_INTENSITY, app_vars>>

NextClassify == ClassifyCall

SpecClassify == InitClassify /\ [][NextClassify]_vars

-----------------------------------------------------------------------------
(* Claims about the classifier, checked under SpecClassify.                *)

AllDigits(text) == text # <<>> /\ \A i \in 1..Len(text) : text[i] \in Digits

\* C7: the pure-numeric rule flags every detection whose text is all digits
\* and whose confidence is strictly greater than 0.6 ("4111111111111111" at
\* 0.9 among them); an all-digit detection with confidence 0.6 or lower is
\* not flagged by this rule.
C7_PureNumericRule ==
    pc = "classify" =>
        /\ (AllDigits(call.text) /\ call.prob > 60) => call.rule = "numeric"
        /\ (AllDigits(call.text) /\ call.prob <= 60) => call.rule # "numeric"
        /\ (call.text = TextCardNumber /\ call.prob = 90) => call.rule = "numeric"

\* "4111111111111111" at confidence 0.9 was classified.
C7_Witness ==
    /\ pc = "classify"
    /\ call.text = TextCardNumber
    /\ call.prob = 90
    /\ call.rule = "numeric"

\* C8: the keyword rule flags every detection whose lowercased, trimmed text
\* contains a label as a substring, whatever its confidence and whether or
\* not the match is a whole word: "DOB: 1990-01-01" for "dob" and "cardigan"
\* for "card".
C8_KeywordRule ==
    pc = "classify" =>
        /\ (\E label \in sensitive_labels : Contains(label, strip(lower(call.text))))
              => call.rule = "keyword"
        /\ call.text \in {TextDob, TextCardigan} => call.rule = "keyword"
        /\ Contains(<<"d", "o", "b">>, strip(lower(TextDob)))
        /\ Contains(<<"c", "a", "r", "d">>, strip(lower(TextCardigan)))

\* "cardigan" was classified at confidence 0.
C8_Witness ==
    /\ pc = "classify"
    /\ call.text = TextCardigan
    /\ call.prob = 0
    /\ call.rule = "keyword"

-----------------------------------------------------------------------------
(* Claims about blur_sensitive_data, checked under SpecRedact.             *)

Enabled == config.enable_blurring = "True"

Disabled == config.enable_blurring \in {"False", ""}

MatchesNumeric(d) == AllDigits(d.text) /\ d.prob > 60

MatchesKeyword(d) ==
    \E label \in sensitive_labels : Contains(label, strip(lower(d.text)))

\* Some pixel of the half-open region differs between bitmaps a and b.
RegionChanged(a, b, x_min, y_min, x_max, y_max) ==
    \E y \in (y_min + 1)..y_max, x \in (x_min + 1)..x_max : a[y][x] # b[y][x]

\* C2: with redaction disabled in the configuration, read at each call,
\* blur_sensitive_data returns its input unchanged, runs no detector, blurs
\* nothing, leaves the OCR engine alone and reports no error.
C2_DisabledPassThrough ==
    (pc = "redact" /\ Disabled) =>
        /\ call.ret = call.image
        /\ call.ret # NoImage
        /\ call.detectors = {}
        /\ call.rules = << >>
        /\ call.regions = << >>
        /\ OCR_READER = call.reader_before

\* A disabled call on a screen with sensitive text, made after an enabled
\* call had initialized the reader.
C2_Witness ==
    /\ pc = "redact"
    /\ Disabled
    /\ call.reader_before = "Reader"
    /\ call.image = SceneAccount.bitmap
    /\ call.ret = call.image

C9_OnlyMatchesBlurred ==
    (pc = "redact" /\ Enabled /\ call.ret # NoImage) =>
        LET dets == readtext(call.image)
            matching == {i \in 1..Len(dets) : MatchesNumeric(dets[i]) \/ MatchesKeyword(dets[i])}
            h == Height(call.image)
            w == Width(call.image)
        IN /\ Len(call.rules) = Len(dets)
           /\ \A i \in 1..Len(dets) : call.rules[i] # "none" => i \in matching
           /\ Len(call.regions) = Cardinality({i \in 1..Len(dets) : call.rules[i] # "none"})
           /\ \A y \in 1..h, x \in 1..w :
                (\A i \in matching :
                    ~InClampedBox(x - 1, y - 1, padded_box(dets[i].bbox), w, h))
                    => call.ret[y][x] = call.image[y][x]
           /\ matching = {} => call.ret = call.image

\* An enabled call that read three detections, none matching a rule, and
\* returned the bitmap as it was.
C9_Witness ==
    /\ pc = "redact"
    /\ Enabled
    /\ call.ret = call.image
    /\ Len(call.rules) = 3
    /\ \A i \in 1..3 : call.rules[i] = "none"

\* C10 as claimed: on "Account: 12345678" the region under the number is
\* blurred, the region under "Account:" is unchanged and that detection is
\* not marked.
C10_Original ==
    (pc = "redact" /\ Enabled /\ call.ret # NoImage /\ call.image = SceneAccount.bitmap) =>
        /\ RegionChanged(call.image, call.ret, 7, 0, 9, 2)
        /\ ~RegionChanged(call.image, call.ret, 0, 0, 2, 2)
        /\ call.rules[1] = "none"

\* C10, amended: on "Account: 12345678" the region under the number is
\* blurred by the pure-numeric rule and the region under "Account:" is
\* blurred too, by the keyword rule: "account:" contains the label "cc".
C10_AccountIsFlagged ==
    (pc = "redact" /\ Enabled /\ call.ret # NoImage /\ call.image = SceneAccount.bitmap) =>
        /\ call.rules = <<"keyword", "numeric">>
        /\ RegionChanged(call.image, call.ret, 7, 0, 9, 2)
        /\ RegionChanged(call.image, call.ret, 0, 0, 2, 2)
        /\ Contains(<<"c", "c">>, strip(lower(TextAccount)))
        /\ <<"c", "c">> \in sensitive_labels

\* An enabled call on "Account: 12345678" that returned a bitmap.
C10_Witness ==
    /\ pc = "redact"
    /\ Enabled
    /\ call.image = SceneAccount.bitmap
    /\ call.ret # NoImage
    /\ call.ret # call.image

-----------------------------------------------------------------------------
(* The application: ScreenshotApp's capture, remove-last and clear         *)
(* handlers and the settings window's save, each run to completion on the  *)
(* UI thread.                                                              *)

\* The number of screenshots the application is taken to hold at most.
MaxShots == 2

\* The screens in front of the application when it captures.
AppScenes == {SceneAccount, SceneHello, SceneForm}

\* take_screenshot() that tries again until pyautogui returns the screen.
take_screenshot_retry(scene, capture_ok) == scene.bitmap

\* take_screenshot(): the screen as a bitmap, or None when pyautogui fails.
take_screenshot(scene, capture_ok) ==
    IF capture_ok THEN scene.bitmap ELSE NoImage

\* save_image_to_bytes(image): a stream holding the encoded image, or None
\* when encoding raises.  A stream is the pair of its format and the pixels
\* the (lossless) encoding keeps; None is the empty tuple.
save_image_to_bytes(image, save_ok) ==
    IF image = NoImage \/ ~save_ok THEN << >> ELSE <<"PNG", image>>

\* The title f"Screenshot {n}", followed by " (Auto)" in auto mode.
Title(n, auto_mode) == [number |-> n, auto |-> auto_mode]

\* The call record of a handler that is not a capture.
NoCall(op) == [op |-> op]

Init ==
    /\ config \in {[enable_blurring |-> v] : v \in ConfigBooleans}
    /\ OCR_READER = None
    /\ screenshots = << >>
    /\ screenshot_titles = << >>
    /\ dialog = "none"
    /\ BLUR_KERNEL = <<15, 15>>
    /\ BLUR_INTENSITY = 35
    /\ NoApp
    /\ call = NoCall("none")
    /\ pc = "start"

\* The redaction record of a capture that did not call blur_sensitive_data.
NotCalled(screenshot_pil) ==
    [ret |-> NoImage, reader |-> OCR_READER, detectors |-> {},
     rules |-> << >>, regions |-> << >>, escapes |-> {},
     original |-> screenshot_pil]

\* The blurring step that drops the capture when blur_sensitive_data
\* returns None.
process_screenshot_drop(screenshot_pil, init_ok, read_ok) ==
    LET enabled == get_boolean(config.enable_blurring, FALSE)
    IN CHOOSE p \in
           {[r |-> r, enabled |-> enabled,
               processed_img |-> IF enabled /\ r.escapes = {} THEN r.ret ELSE screenshot_pil,
               dialog |-> IF r.escapes # {} THEN "Blurring Error" ELSE "none",
               escapes |-> Uncaught({"Exception"}, r.escapes)] :
            r \in {IF enabled
                   THEN blur_sensitive_data(screenshot_pil, init_ok, read_ok)
                   ELSE NotCalled(screenshot_pil)}} : TRUE

\* The blurring step that lets an exception of blur_sensitive_data through.
process_screenshot_untried(screenshot_pil, init_ok, read_ok) ==
    LET enabled == get_boolean(config.enable_blurring, FALSE)
    IN CHOOSE p \in
           {[r |-> r, enabled |-> enabled,
               processed_img |-> IF enabled /\ r.ret # NoImage THEN r.ret ELSE screenshot_pil,
               dialog |-> "none",
               escapes |-> IF enabled /\ ~read_ok THEN ExceptionKinds ELSE r.escapes] :
            r \in {IF enabled
                   THEN blur_sensitive_data(screenshot_pil, init_ok, read_ok)
                   ELSE NotCalled(screenshot_pil)}} : TRUE

\* The blurring step of take_and_store_screenshot (lines 153-165): the
\* image to store is the one blur_sensitive_data returns, and the captured
\* one when blurring is off, when it returns None, or when it raises an
\* Exception, which the handler catches and shows as "Blurring Error".
\* r is what blur_sensitive_data did; escapes, the exceptions that leave the
\* handler at this step.
process_screenshot(screenshot_pil, init_ok, read_ok) ==
    LET enabled == get_boolean(config.enable_blurring, FALSE)
    IN CHOOSE p \in
           {[r |-> r, enabled |-> enabled,
               processed_img |-> IF enabled /\ r.escapes = {} /\ r.ret # NoImage
                                 THEN r.ret ELSE screenshot_pil,
               dialog |-> IF r.escapes # {} THEN "Blurring Error" ELSE "none",
               escapes |-> Uncaught({"Exception"}, r.escapes)] :
            r \in {IF enabled
                   THEN blur_sensitive_data(screenshot_pil, init_ok, read_ok)
                   ELSE NotCalled(screenshot_pil)}} : TRUE

\* take_and_store_screenshot(auto_mode) in front of scene.  capture_ok,
\* init_ok, read_ok and save_ok say whether pyautogui, easyocr.Reader, the
\* later steps of blur_sensitive_data and Image.save return rather than
\* raise; the outcomes of steps the handler does not reach are not drawn.
\* call.ret is what blur_sensitive_data returned, NoImage when it was not
\* called; call.storage says whether the handler reached its storage step.
take_and_store_screenshot(auto_mode) ==
    \E scene \in AppScenes, capture_ok \in BOOLEAN :
    LET screenshot_pil == take_screenshot(scene, capture_ok)
        enabled == get_boolean(config.enable_blurring, FALSE)
    IN IF screenshot_pil = NoImage
       THEN /\ dialog' = "Capture Error"
            /\ call' = [op |-> "take", capture_ok |-> capture_ok,
                        captured |-> NoImage, enabled |-> FALSE,
                        reader_before |-> OCR_READER,
                        ret |-> NoImage, detectors |-> {}, rules |-> << >>,
                        regions |-> << >>, escapes |-> {}, storage |-> FALSE,
                        save_ok |-> FALSE]
            /\ UNCHANGED <<OCR_READER, screenshots, screenshot_titles>>
       ELSE \E init_ok \in (IF enabled /\ OCR_READER = None THEN BOOLEAN ELSE {TRUE}),
               read_ok \in (IF enabled THEN BOOLEAN ELSE {TRUE}) :
            \E p \in {process_screenshot(screenshot_pil, init_ok, read_ok)} :
            \E save_ok \in (IF p.escapes = {} THEN BOOLEAN ELSE {FALSE}) :
            \E img_io \in {IF p.escapes = {}
                           THEN save_image_to_bytes(p.processed_img, save_ok)
                           ELSE << >>} :
            /\ OCR_READER' = p.r.reader
            /\ call' = [op |-> "take", capture_ok |-> capture_ok,
                        captured |-> screenshot_pil,
                        enabled |-> enabled, reader_before |-> OCR_READER,
                        ret |-> p.r.ret, detectors |-> p.r.detectors,
                        rules |-> p.r.rules, regions |-> p.r.regions,
                        escapes |-> p.escapes, storage |-> p.escapes = {},
                        save_ok |-> save_ok]
            /\ IF img_io # << >>
               THEN /\ screenshots' = Append(screenshots, img_io)
                    /\ screenshot_titles' = Append(screenshot_titles,
                            Title(Len(screenshots) + 1, auto_mode))
                    /\ dialog' = p.dialog
               ELSE /\ dialog' = IF p.escapes = {} THEN "Storage Error" ELSE p.dialog
                    /\ UNCHANGED <<screenshots, screenshot_titles>>

\* A capture, from the button, the hotkey or the auto-capture worker.
TakeAndStore ==
    /\ Len(screenshots) < MaxShots
    /\ \E auto_mode \in BOOLEAN : take_and_store_screenshot(auto_mode)
    /\ pc' = "take_and_store_screenshot"
    /\ UNCHANGED <<config, BLUR_KERNEL, BLUR_INTENSITY, app_vars>>

\* remove_last_screenshot()
remove_last_screenshot ==
    /\ IF screenshots = << >>
       THEN /\ dialog' = "Info"
            /\ UNCHANGED <<screenshots, screenshot_titles>>
       ELSE /\ screenshot_titles' = SubSeq(screenshot_titles, 1, Len(screenshot_titles) - 1)
            /\ screenshots' = SubSeq(screenshots, 1, Len(screenshots) - 1)
            /\ dialog' = "none"
    /\ call' = NoCall("remove_last")
    /\ pc' = "remove_last_screenshot"
    /\ UNCHANGED <<config, OCR_READER, BLUR_KERNEL, BLUR_INTENSITY, app_vars>>

\* clear_screenshots()
clear_screenshots ==
    /\ IF screenshots = << >>
       THEN /\ dialog' = "Info"
            /\ UNCHANGED <<screenshots, screenshot_titles>>
       ELSE /\ screenshots' = << >>
            /\ screenshot_titles' = << >>
            /\ dialog' = "Cleared"
    /\ call' = NoCall("clear")
    /\ pc' = "clear_screenshots"
    /\ UNCHANGED <<config, OCR_READER, BLUR_KERNEL, BLUR_INTENSITY, app_vars>>

\* str(value) for a boolean value.
str(value) == IF value THEN "True" ELSE "False"

\* SettingsWindow._save_settings().  valid is the result of
\* _validate_settings, blur_enabled the state of the check box, written the
\* result of config_manager.save_config().
save_settings ==
    /\ \E valid \in BOOLEAN, blur_enabled \in BOOLEAN, written \in BOOLEAN :
        IF ~valid
        THEN /\ dialog' = "Validation Error"
             /\ UNCHANGED config
        ELSE /\ config' = [config EXCEPT !.enable_blurring = str(blur_enabled)]
             /\ dialog' = IF written THEN "Settings Saved" ELSE "Save Error"
    /\ call' = NoCall("save_settings")
    /\ pc' = "save_settings"
    /\ UNCHANGED <<OCR_READER, screenshots, screenshot_titles, BLUR_KERNEL, BLUR_INTENSITY, app_vars>>

Next ==
    \/ TakeAndStore
    \/ remove_last_screenshot
    \/ clear_screenshots
    \/ save_settings

Spec == Init /\ [][Next]_vars

-----------------------------------------------------------------------------
(* Claims about the capture handler, checked under Spec.                   *)

\* The handler that has just run captured a screen with blurring enabled
\* and blur_sensitive_data returned None.
RedactionFailed ==
    /\ pc = "take_and_store_screenshot"
    /\ call.captured # NoImage
    /\ call.enabled
    /\ call.ret = NoImage

\* The handler that has just run captured a screen with blurring enabled
\* and blur_sensitive_data returned a bitmap.
RedactionReturned ==
    /\ pc = "take_and_store_screenshot"
    /\ call.captured # NoImage
    /\ call.enabled
    /\ call.ret # NoImage

\* C1 as claimed: whenever a capture succeeds with redaction enabled and
\* blur_sensitive_data returns None, the screenshots list grows by exactly
\* one entry, holding the unredacted image.
C1_Original ==
    [][RedactionFailed' =>
          screenshots' = Append(screenshots, <<"PNG", call'.captured>>)]_vars

\* C1, amended: whenever a capture succeeds with redaction enabled and
\* blur_sensitive_data returns None, the handler keeps the unredacted image
\* and hands it to save_image_to_bytes.  When the encoding succeeds both
\* lists grow by exactly one entry, the image stored being the unredacted
\* one; when the encoding fails nothing is stored and the "Storage Error"
\* dialog is shown.  The capture is never dropped without a dialog.
C1_FallbackStored ==
    [][RedactionFailed' =>
          IF call'.save_ok
          THEN /\ screenshots' = Append(screenshots, <<"PNG", call'.captured>>)
               /\ screenshot_titles' = Append(screenshot_titles,
                      [number |-> Len(screenshots) + 1,
                       auto |-> screenshot_titles'[Len(screenshot_titles')].auto])
               /\ dialog' = "none"
          ELSE /\ screenshots' = screenshots
               /\ screenshot_titles' = screenshot_titles
               /\ dialog' = "Storage Error"]_vars

\* A second capture, of "Account: 12345678", whose redaction failed and
\* whose unredacted image was stored.
C1_Witness ==
    /\ RedactionFailed
    /\ call.save_ok
    /\ call.captured = SceneAccount.bitmap
    /\ Len(screenshots) = 2
    /\ screenshots[2] = <<"PNG", SceneAccount.bitmap>>

\* The boxes blur_numbers_pytesseract marks in the words of data.
NumberBoxes(data) ==
    {<<data[i].left, data[i].top, data[i].left + data[i].width,
       data[i].top + data[i].height>> :
        i \in {j \in 1..Len(data) :
                 data[j].conf >= 50 /\ AllDigits(strip(data[j].text))}}

\* blur_region applied to image_np at the padded boxes of the detections
\* of dets that match a rule, from detection i on, in their order.
RECURSIVE BlurMatching(_, _, _)
BlurMatching(image_np, dets, i) ==
    IF i > Len(dets) THEN image_np
    ELSE IF MatchesNumeric(dets[i]) \/ MatchesKeyword(dets[i])
    THEN LET box == padded_box(dets[i].bbox)
         IN BlurMatching(blur_region(image_np, box[1], box[2], box[3], box[4]),
                         dets, i + 1)
    ELSE BlurMatching(image_np, dets, i + 1)

-----------------------------------------------------------------------------
(* Claims about the failures of the redaction functions, checked under     *)
(* SpecRedact.                                                             *)

\* b is an image of the size of image.
SameSize(b, image) ==
    /\ b # NoImage
    /\ Height(b) = Height(image)
    /\ Width(b) = Width(image)

\* C11: no failure inside blur_sensitive_data or blur_numbers_pytesseract
\* leaves the function as an exception: whatever step fails, the call
\* returns an image of the input's size or None; and the blurring step of
\* take_and_store_screenshot on the same screen, whatever fails in it, lets
\* no exception through and hands an image to the storage step.
C11_NoFailurePropagates ==
    /\ pc \in {"redact", "numbers"} =>
          /\ call.escapes = {}
          /\ call.ret = NoImage \/ SameSize(call.ret, call.image)
    /\ pc = "redact" =>
          \A init_ok \in BOOLEAN, read_ok \in BOOLEAN :
              LET p == process_screenshot(call.image, init_ok, read_ok)
              IN /\ p.escapes = {}
                 /\ SameSize(p.processed_img, call.image)

\* An enabled call in which a step after the reader's initialization
\* raised: it returned None.
C11_Witness ==
    /\ pc = "redact"
    /\ Enabled
    /\ call.reader_before = "Reader"
    /\ ~call.read_ok
    /\ call.ret = NoImage
    /\ call.escapes = {}

\* The word w of Tesseract is a number: trimmed, all decimal digits, with
\* confidence at least 50.
QualifiesAsNumber(w) == w.conf >= 50 /\ AllDigits(strip(w.text))

WordBox(w) == <<w.left, w.top, w.left + w.width, w.top + w.height>>

\* blur_region applied to image_np at the boxes of the words of data that
\* qualify as numbers, from word i on, in their order.
RECURSIVE BlurNumbers(_, _, _)
BlurNumbers(image_np, data, i) ==
    IF i > Len(data) THEN image_np
    ELSE IF QualifiesAsNumber(data[i])
    THEN LET box == WordBox(data[i])
         IN BlurNumbers(blur_region(image_np, box[1], box[2], box[3], box[4]),
                        data, i + 1)
    ELSE BlurNumbers(image_np, data, i + 1)

\* C15: the numeric-sequence detector keeps, and blurs, a word if and only
\* if its trimmed text is all decimal digits and its confidence is at least
\* 50: the boxes blurred are those of the qualifying words and no others,
\* the image returned is the input blurred at exactly those boxes, and with
\* no qualifying word no box is blurred and the image comes back as it was,
\* not None.
C15_NumericDetector ==
    (pc = "numbers" /\ Enabled /\ call.tesseract = "ok") =>
        LET data == image_to_data(call.image)
            keep == {i \in 1..Len(data) : QualifiesAsNumber(data[i])}
        IN /\ call.ret # NoImage
           /\ Len(call.regions) = Cardinality(keep)
           /\ {call.regions[k] : k \in 1..Len(call.regions)} =
                 {WordBox(data[i]) : i \in keep}
           /\ call.ret = BlurNumbers(call.image, data, 1)
           /\ keep = {} => (call.regions = << >> /\ call.ret = call.image)

\* A call on words at the edges of the test: the number at confidence 50
\* and the number between spaces are blurred, the number at 49 is not.
C15_Witness ==
    /\ pc = "numbers"
    /\ Enabled
    /\ call.tesseract = "ok"
    /\ call.image = SceneDigits.bitmap
    /\ call.regions = << <<0, 0, 2, 1>>, <<6, 0, 8, 2>> >>
    /\ RegionChanged(call.image, call.ret, 0, 0, 2, 1)
    /\ ~RegionChanged(call.image, call.ret, 3, 0, 5, 1)

FlaggedIndex(rules, k) ==
    CHOOSE i \in 1..Len(rules) :
        /\ rules[i] # "none"
        /\ Cardinality({j \in 1..i : rules[j] # "none"}) = k

\* The smallest and largest x and y among the corner points of bbox.
Extent(bbox) ==
    LET xs == {bbox[k][1] : k \in 1..Len(bbox)}
        ys == {bbox[k][2] : k \in 1..Len(bbox)}
    IN [x_min |-> CHOOSE m \in xs : \A n \in xs : m <= n,
        y_min |-> CHOOSE m \in ys : \A n \in ys : m <= n,
        x_max |-> CHOOSE m \in xs : \A n \in xs : m >= n,
        y_max |-> CHOOSE m \in ys : \A n \in ys : m >= n]

\* C18 as claimed: the region handed to blur_region for a flagged detection
\* is the bounding box of its corner points expanded by exactly 2 pixels on
\* each of the four sides.
C18_Original ==
    (pc = "redact" /\ Enabled /\ call.ret # NoImage) =>
        \A k \in 1..Len(call.regions) :
            LET e == Extent(readtext(call.image)[FlaggedIndex(call.rules, k)].bbox)
            IN call.regions[k] = <<e.x_min - 2, e.y_min - 2, e.x_max + 2, e.y_max + 2>>

\* C18, amended: the region handed to blur_region for a flagged detection
\* is the bounding box of its corner points (min and max over their x and
\* y) expanded by 2 pixels to the right and to the bottom, and by 2 pixels
\* to the left and to the top but not past 0: the caller itself clamps
\* x_min and y_min at 0.  blur_region blurs the same pixels for this box
\* as for the box expanded by 2 on all four sides.
C18_PaddedBox ==
    (pc = "redact" /\ Enabled /\ call.ret # NoImage) =>
        \A k \in 1..Len(call.regions) :
            LET e == Extent(readtext(call.image)[FlaggedIndex(call.rules, k)].bbox)
                handed == call.regions[k]
            IN /\ handed = <<Max(0, e.x_min - 2), Max(0, e.y_min - 2),
                             e.x_max + 2, e.y_max + 2>>
               /\ blur_region(call.image, handed[1], handed[2], handed[3], handed[4])
                  = blur_region(call.image, e.x_min - 2, e.y_min - 2,
                                e.x_max + 2, e.y_max + 2)

\* The slanted box of the form's date of birth, corners from (5, 0) to
\* (7, 1), was handed on as (3, 0, 9, 3).
C18_Witness ==
    /\ pc = "redact"
    /\ Enabled
    /\ call.image = SceneForm.bitmap
    /\ call.ret # NoImage
    /\ call.regions[1] = <<3, 0, 9, 3>>

\* The boxes a and b have a pixel in common.
Overlap(a, b) ==
    /\ Max(a[1], b[1]) < Min(a[3], b[3])
    /\ Max(a[2], b[2]) < Min(a[4], b[4])

\* The indices of the results the classifier marks, in the detector's order.
Flagged(ocr_results) ==
    {i \in 1..Len(ocr_results) :
        blur_this_box(ocr_results[i].text, ocr_results[i].prob) # "none"}

\* blur_region applied to image_np for each box of regions from box k on,
\* one call after the other.
RECURSIVE BlurEach(_, _, _)
BlurEach(image_np, regions, k) ==
    IF k > Len(regions) THEN image_np
    ELSE CHOOSE out \in
            {BlurEach(next_np, regions, k + 1) :
                next_np \in {blur_region(image_np, regions[k][1], regions[k][2],
                                         regions[k][3], regions[k][4])}} : TRUE

\* The sequence s without the element at index k.
Without(s, k) == SubSeq(s, 1, k - 1) \o SubSeq(s, k + 1, Len(s))

\* C20: within one redact call that returns an image, blur_region is called
\* once for every flagged detection, in the order of the detections, also for
\* flagged boxes that are identical or overlap: the k-th box blurred is the
\* padded box of the k-th flagged detection, the returned image is the input
\* after exactly these calls in this order, and the count of blurred regions
\* the call reports is the number of flagged detections.
C20_OncePerFlagged ==
    (pc = "redact" /\ Enabled /\ call.ret # NoImage) =>
        LET ocr_results == readtext(call.image)
            flagged == Flagged(ocr_results)
        IN /\ Len(call.regions) = Cardinality(flagged)
           /\ \A k \in 1..Len(call.regions) :
                \E i \in flagged :
                    /\ Cardinality({j \in flagged : j <= i}) = k
                    /\ call.regions[k] = padded_box(ocr_results[i].bbox)
           /\ call.ret = BlurEach(call.image, call.regions, 1)
           /\ call.boxes_blurred = Cardinality(flagged)

\* A call that blurs the same box twice and then a box that overlaps it,
\* where leaving out the second pass over the same box would give another
\* image.
C20_Witness ==
    /\ pc = "redact"
    /\ Enabled
    /\ call.ret # NoImage
    /\ call.boxes_blurred = 3
    /\ call.regions[1] = call.regions[2]
    /\ Overlap(call.regions[2], call.regions[3])
    /\ call.regions[2] # call.regions[3]
    /\ call.ret # BlurEach(call.image, Without(call.regions, 2), 1)

\* C21: within one redact call the detections are all read from the input
\* pixels before the first blur: the call decides on every result the
\* detector reports for the unmodified input, one decision per result, and
\* a blur applied for one result does not change the decision on a later
\* one.
C21_DetectThenBlur ==
    (pc = "redact" /\ Enabled /\ call.ret # NoImage) =>
        LET ocr_results == readtext(call.image) IN
        /\ Len(call.rules) = Len(ocr_results)
        /\ \A i \in 1..Len(ocr_results) :
            call.rules[i] = blur_this_box(ocr_results[i].text, ocr_results[i].prob)

\* A call that blurs a region for one result, changing the pixels, and
\* still flags a result that comes after it.
C21_Witness ==
    /\ pc = "redact"
    /\ Enabled
    /\ call.ret # NoImage
    /\ \E i, j \in 1..Len(call.rules) :
        /\ i < j
        /\ call.rules[i] # "none"
        /\ call.rules[j] # "none"
    /\ blur_region(call.image, call.regions[1][1], call.regions[1][2],
                   call.regions[1][3], call.regions[1][4]) # call.image

\* C29: a failed initialization is not kept: a redact call that finds the
\* handle unset calls easyocr.Reader, and if that fails the handle stays
\* unset and the call returns None, whatever happened in earlier calls; if
\* it succeeds the handle is set.  A call that finds the handle set does not
\* call easyocr.Reader, and no step unsets the handle or assigns it again.
C29_FailureNotCached ==
    /\ [](pc = "redact" /\ Enabled =>
            /\ call.constructed <=> call.reader_before = None
            /\ (call.reader_before = None /\ ~call.init_ok) =>
                    (OCR_READER = None /\ call.ret = NoImage)
            /\ (call.reader_before = None /\ call.init_ok) => OCR_READER # None)
    /\ [][OCR_READER # None => OCR_READER' = OCR_READER]_vars

\* A call after the handle was set, at a time when easyocr.Reader would
\* fail: the handle is used as it is and an image returned.
C29_Witness ==
    /\ pc = "redact"
    /\ Enabled
    /\ call.reader_before # None
    /\ ~call.init_ok
    /\ ~call.constructed
    /\ OCR_READER = call.reader_before
    /\ call.ret # NoImage

\* C14: redaction works on a copy: after an enabled call of
\* blur_sensitive_data or blur_numbers_pytesseract, whether it returned a
\* blurred image, the image as it was, or None, every pixel of the caller's
\* image has the value it had before the call.
C14_OriginalUntouched ==
    (pc \in {"redact", "numbers"} /\ Enabled) => call.original = call.image

\* An enabled call that returned an image with blurred pixels.
C14_Witness ==
    /\ pc = "redact"
    /\ Enabled
    /\ call.ret # NoImage
    /\ call.ret # call.image
    /\ call.original = call.image

-----------------------------------------------------------------------------
(* Further claims about the capture handler, checked under Spec.           *)

\* C12: a capture failure ends the invocation: when pyautogui fails,
\* take_and_store_screenshot shows "Capture Error" and returns; it does not
\* capture again, calls no redaction (no detector runs, the reader is not
\* initialized), does not reach the storage step, and leaves the
\* screenshots and titles lists unchanged.
C12_CaptureFailureTerminal ==
    [][(pc' = "take_and_store_screenshot" /\ ~call'.capture_ok) =>
          /\ call'.captured = NoImage
          /\ call'.detectors = {}
          /\ call'.ret = NoImage
          /\ ~call'.storage
          /\ OCR_READER' = OCR_READER
          /\ screenshots' = screenshots
          /\ screenshot_titles' = screenshot_titles
          /\ dialog' = "Capture Error"]_vars

\* A failed capture with blurring enabled, the reader not yet initialized
\* and one screenshot stored before.
C12_Witness ==
    /\ pc = "take_and_store_screenshot"
    /\ ~call.capture_ok
    /\ config.enable_blurring = "True"
    /\ OCR_READER = None
    /\ Len(screenshots) = 1
    /\ dialog = "Capture Error"

-----------------------------------------------------------------------------
(* get_ocr_reader under threads.  take_and_store_screenshot runs on the Tk *)
(* main thread (the button, and the auto-capture worker's after(0, ...))   *)
(* and on the keyboard library's thread, which runs the hotkey callback    *)
(* registered by GlobalHotkeys._register_hotkeys.  With blurring enabled   *)
(* each call reaches get_ocr_reader, whose lines are the steps below; no   *)
(* lock is held between them.  Here pc maps each thread to its line, and   *)
(* call holds the threads' locals and the counts of what has happened.     *)

Threads == {"ui", "hotkey"}

\* The number of captures each thread is taken to make at most.
MaxCalls == 2

\* The n-th object easyocr.Reader(['en']) returns.
Instance(n) == "Reader" \o ToString(n)

InitReader ==
    /\ config = [enable_blurring |-> "True"]
    /\ OCR_READER = None
    /\ screenshots = << >>
    /\ screenshot_titles = << >>
    /\ dialog = "none"
    /\ BLUR_KERNEL = <<15, 15>>
    /\ BLUR_INTENSITY = 35
    /\ NoApp
    /\ call = [calls |-> [t \in Threads |-> 0],
               instance |-> [t \in Threads |-> None],
               returned |-> [t \in Threads |-> None],
               constructed |-> 0, failed |-> 0]
    /\ pc = [t \in Threads |-> "idle"]

ReaderFrame == UNCHANGED <<config, screenshots, screenshot_titles, dialog, BLUR_KERNEL, BLUR_INTENSITY, app_vars>>

\* Line 179 of blur_sensitive_data: thread t calls get_ocr_reader().
ReaderCall(t) ==
    /\ pc[t] = "idle"
    /\ call.calls[t] < MaxCalls
    /\ pc' = [pc EXCEPT ![t] = "line 46"]
    /\ call' = [call EXCEPT !.calls[t] = @ + 1, !.instance[t] = None,
                            !.returned[t] = None]
    /\ UNCHANGED OCR_READER
    /\ ReaderFrame

\* Line 46: if OCR_READER is None.
ReaderTest(t) ==
    /\ pc[t] = "line 46"
    /\ pc' = [pc EXCEPT ![t] = IF OCR_READER = None THEN "line 49" ELSE "line 55"]
    /\ UNCHANGED <<OCR_READER, call>>
    /\ ReaderFrame

\* Line 49, right-hand side: easyocr.Reader(['en']) runs and returns a new
\* object, or raises, and get_ocr_reader raises RuntimeError (line 54).
ReaderConstruct(t) ==
    /\ pc[t] = "line 49"
    /\ \E init_ok \in BOOLEAN :
        IF init_ok
        THEN /\ call' = [call EXCEPT !.constructed = @ + 1,
                                     !.instance[t] = Instance(call.constructed + 1)]
             /\ pc' = [pc EXCEPT ![t] = "line 49 store"]
        ELSE /\ call' = [call EXCEPT !.failed = @ + 1]
             /\ pc' = [pc EXCEPT ![t] = "idle"]
    /\ UNCHANGED OCR_READER
    /\ ReaderFrame

\* Line 49, the assignment to the global OCR_READER.
ReaderStore(t) ==
    /\ pc[t] = "line 49 store"
    /\ OCR_READER' = call.instance[t]
    /\ pc' = [pc EXCEPT ![t] = "line 55"]
    /\ UNCHANGED call
    /\ ReaderFrame

\* Line 55: return OCR_READER.
ReaderReturn(t) ==
    /\ pc[t] = "line 55"
    /\ call' = [call EXCEPT !.returned[t] = OCR_READER]
    /\ pc' = [pc EXCEPT ![t] = "idle"]
    /\ UNCHANGED OCR_READER
    /\ ReaderFrame

NextReader ==
    \E t \in Threads :
        \/ ReaderCall(t)
        \/ ReaderTest(t)
        \/ ReaderConstruct(t)
        \/ ReaderStore(t)
        \/ ReaderReturn(t)

SpecReader == InitReader /\ [][NextReader]_vars

-----------------------------------------------------------------------------
(* Claims about get_ocr_reader under threads, checked under SpecReader.    *)

\* C13 as claimed: the engine is initialized at most once: whatever the
\* threads do, easyocr.Reader returns at most one object in the life of the
\* process, and every call that returns a reader returns that one object.
C13_Original ==
    /\ call.constructed <= 1
    /\ \A t \in Threads : call.returned[t] \in {None, Instance(1)}

-----------------------------------------------------------------------------
(* _load_blur_settings, run once when processing.py is imported.           *)

\* str.split(sep) for a one-character sep: the pieces between the
\* separators, empty pieces included.
RECURSIVE split_sep(_, _)
split_sep(text, sep) ==
    IF \A i \in 1..Len(text) : text[i] # sep THEN <<text>>
    ELSE LET k == CHOOSE i \in 1..Len(text) :
                      text[i] = sep /\ \A j \in 1..(i - 1) : text[j] # sep
         IN <<SubSeq(text, 1, k - 1)>> \o split_sep(SubSeq(text, k + 1, Len(text)), sep)

\* The digits of an integer literal: the text without surrounding
\* whitespace and without its sign.
IntDigits(text) ==
    LET s == strip(text)
    IN IF Len(s) > 0 /\ s[1] \in {"-", "+"} THEN Tail(s) ELSE s

\* int(text) returns rather than raises ValueError: an optional sign and
\* one or more digits, whitespace around them allowed.
int_ok(text) == isdigit(IntDigits(text))

DigitValue(c) ==
    CASE c = "0" -> 0 [] c = "1" -> 1 [] c = "2" -> 2 [] c = "3" -> 3 [] c = "4" -> 4
      [] c = "5" -> 5 [] c = "6" -> 6 [] c = "7" -> 7 [] c = "8" -> 8 [] c = "9" -> 9

RECURSIVE DecimalValue(_)
DecimalValue(digits) ==
    IF Len(digits) = 0 THEN 0
    ELSE 10 * DecimalValue(SubSeq(digits, 1, Len(digits) - 1))
         + DigitValue(digits[Len(digits)])

\* int(text) where int_ok(text).
int(text) ==
    LET s == strip(text)
    IN IF s[1] = "-" THEN -DecimalValue(IntDigits(text))
       ELSE DecimalValue(IntDigits(text))

\* k | 1 that leaves k as it is.
BitOr1_keep(k) == k

\* k | 1 for an integer k > 0: the lowest bit set.
BitOr1(k) == IF k % 2 = 0 THEN k + 1 ELSE k

DefaultKernel == <<15, 15>>

DefaultIntensity == 35

\* _load_blur_settings(), given the values config_manager.get returns for
\* blur_kernel and blur_intensity.  A ValueError of int() or of line 24 is
\* caught at line 29.
load_blur_settings(kernel_str, intensity_str) ==
    LET parts == split_sep(kernel_str, ",")
        defaults == [kernel |-> DefaultKernel, intensity |-> DefaultIntensity]
    IN IF (\E i \in 1..Len(parts) : ~int_ok(parts[i])) \/ ~int_ok(intensity_str)
       THEN defaults
       ELSE LET kernel == [i \in 1..Len(parts) |-> int(parts[i])]
                intensity == int(intensity_str)
            IN IF Len(kernel) # 2 \/ kernel[1] <= 0 \/ kernel[2] <= 0 \/ intensity <= 0
               THEN defaults
               ELSE [kernel |-> <<BitOr1(kernel[1]), BitOr1(kernel[2])>>,
                     intensity |-> intensity]

\* The longest blur_kernel value drawn.
MaxKernelLen == 5

\* An even digit, an odd digit, zero, the sign, the separator, a letter.
KernelAlphabet == {"2", "3", "0", "-", ",", "a"}

KernelStrings ==
    UNION {[1..n -> KernelAlphabet] : n \in 0..MaxKernelLen}

IntensityStrings ==
    {<<"3", "5">>, <<"7">>, <<"0">>, <<"-", "3">>, <<"3", ".", "5">>, << >>}

InitLoad ==
    /\ config = DefaultConfig
    /\ OCR_READER = None
    /\ screenshots = << >>
    /\ screenshot_titles = << >>
    /\ dialog = "none"
    /\ BLUR_KERNEL = None
    /\ BLUR_INTENSITY = None
    /\ NoApp
    /\ call \in {[kernel_str |-> k, intensity_str |-> s] :
                    k \in KernelStrings, s \in IntensityStrings}
    /\ pc = "import"

\* Line 36: BLUR_KERNEL, BLUR_INTENSITY = _load_blur_settings()
LoadBlurSettings ==
    /\ pc = "import"
    /\ \E r \in {load_blur_settings(call.kernel_str, call.intensity_str)} :
        /\ BLUR_KERNEL' = r.kernel
        /\ BLUR_INTENSITY' = r.intensity
    /\ pc' = "loaded"
    /\ UNCHANGED <<config, OCR_READER, screenshots, screenshot_titles, dialog, call,
                   app_vars>>

NextLoad == LoadBlurSettings

SpecLoad == InitLoad /\ [][NextLoad]_vars

-----------------------------------------------------------------------------
(* Claims about _load_blur_settings, checked under SpecLoad.               *)

\* The configured values are valid: two comma-separated integers, both
\* positive, and a positive integer intensity.
ValidBlurSettings(kernel_str, intensity_str) ==
    LET parts == split_sep(kernel_str, ",")
    IN /\ Len(parts) = 2
       /\ \A i \in 1..2 : int_ok(parts[i]) /\ int(parts[i]) > 0
       /\ int_ok(intensity_str) /\ int(intensity_str) > 0

\* C17: the loaded configuration is always a kernel of exactly two positive
\* odd integers and a positive intensity.  From valid values, an even
\* kernel dimension is incremented by one, an odd one is kept, and the
\* intensity is the configured one; from any invalid kernel or intensity
\* (not an integer, not two components, zero or negative) the whole
\* configuration is the default, kernel (15, 15) with intensity 35.
C17_LoadedBlurSettings ==
    pc = "loaded" =>
        /\ Len(BLUR_KERNEL) = 2
        /\ \A i \in 1..2 : BLUR_KERNEL[i] > 0 /\ BLUR_KERNEL[i] % 2 = 1
        /\ BLUR_INTENSITY > 0
        /\ IF ValidBlurSettings(call.kernel_str, call.intensity_str)
           THEN LET parts == split_sep(call.kernel_str, ",")
                IN /\ \A i \in 1..2 :
                        BLUR_KERNEL[i] = IF int(parts[i]) % 2 = 0
                                         THEN int(parts[i]) + 1 ELSE int(parts[i])
                   /\ BLUR_INTENSITY = int(call.intensity_str)
           ELSE BLUR_KERNEL = <<15, 15>> /\ BLUR_INTENSITY = 35

\* The kernel "2,3" with intensity "7" was loaded as (3, 3), 7.
C17_Witness ==
    /\ pc = "loaded"
    /\ call.kernel_str = <<"2", ",", "3">>
    /\ call.intensity_str = <<"7">>
    /\ BLUR_KERNEL = <<3, 3>>
    /\ BLUR_INTENSITY = 7

-----------------------------------------------------------------------------
(* Two blur_region calls on one bitmap, in both orders.                    *)

\* The boxes with at least one pixel that lie inside image_np.
InnerBoxes(image_np) ==
    {<<x_min, y_min, x_max, y_max>> :
        x_min \in 0..Width(image_np), y_min \in 0..Height(image_np),
        x_max \in 0..Width(image_np), y_max \in 0..Height(image_np)}
    \ {box \in Boxes(image_np) : box[1] >= box[3] \/ box[2] >= box[4]}

InitOrder ==
    /\ config = DefaultConfig
    /\ OCR_READER = None
    /\ screenshots = << >>
    /\ screenshot_titles = << >>
    /\ dialog = "none"
    /\ BLUR_KERNEL \in BlurKernels
    /\ BLUR_INTENSITY = 35
    /\ NoApp
    /\ call \in {[image_np |-> b] : b \in Bitmaps}
    /\ pc = "input"

\* blur_region on box a and then on box b, and on b and then on a, each
\* time starting from a copy of the input bitmap.
BlurTwoRegions ==
    /\ pc = "input"
    /\ \E a \in InnerBoxes(call.image_np), b \in InnerBoxes(call.image_np) :
        \E after_a \in {blur_region(call.image_np, a[1], a[2], a[3], a[4])},
           after_b \in {blur_region(call.image_np, b[1], b[2], b[3], b[4])} :
            call' = [image_np |-> call.image_np, a |-> a, b |-> b,
                     a_then_b |-> blur_region(after_a, b[1], b[2], b[3], b[4]),
                     b_then_a |-> blur_region(after_b, a[1], a[2], a[3], a[4])]
    /\ pc' = "blur_two_regions"
    /\ UNCHANGED <<config, OCR_READER, screenshots, screenshot_titles, dialog,
                   BLUR_KERNEL, BLUR_INTENSITY, app_vars>>

NextOrder == BlurTwoRegions

SpecOrder == InitOrder /\ [][NextOrder]_vars

-----------------------------------------------------------------------------
(* Claims about the order of blur_region calls, checked under SpecOrder.   *)

\* C19 as claimed: for every bitmap and every two boxes, overlapping ones
\* included, blurring the first box and then the second gives the same
\* bitmap as blurring them in the opposite order.
C19_Original ==
    pc = "blur_two_regions" => call.a_then_b = call.b_then_a

\* C19, amended: blur_region calls on two boxes that have no pixel in
\* common commute: either order gives the same bitmap.  (For boxes that
\* overlap the two orders can give different bitmaps.)
C19_DisjointCommute ==
    (pc = "blur_two_regions" /\ ~Overlap(call.a, call.b)) =>
        call.a_then_b = call.b_then_a

\* Two boxes side by side, each blurred to new pixel values, with the same
\* bitmap in either order.
C19_Witness ==
    /\ pc = "blur_two_regions"
    /\ ~Overlap(call.a, call.b)
    /\ call.a[3] = call.b[1]
    /\ RegionChanged(call.image_np, call.a_then_b, call.a[1], call.a[2], call.a[3], call.a[4])
    /\ RegionChanged(call.image_np, call.a_then_b, call.b[1], call.b[2], call.b[3], call.b[4])
    /\ call.a_then_b = call.b_then_a

-----------------------------------------------------------------------------
(* The settings window and the blur settings: the module globals are       *)
(* loaded when processing.py is imported, the settings window writes the   *)
(* options, and the application applies what it can apply live.            *)

\* str(n) for an integer n >= 0.
RECURSIVE str_int(_)
str_int(n) ==
    IF n < 10 THEN <<Digits_seq[n + 1]>>
    ELSE str_int(n \div 10) \o <<Digits_seq[(n % 10) + 1]>>

\* The values the fields Blur Kernel and Blur Intensity of the settings
\* window may hold when Save is pressed.
KernelEntries ==
    {<<"1", "5", ",", "1", "5">>, <<"3", ",", "3">>, <<"4", ",", " ", "6">>, <<"3">>}

IntensityEntries == {<<"3", "5">>, <<"0", "7">>, <<"0">>}

\* _validate_settings() on the two blur fields: two positive numbers
\* separated by a comma, and a positive intensity.
validate_settings(kernel_var, intensity_var) ==
    LET kernel_parts == split_sep(kernel_var, ",")
    IN /\ Len(kernel_parts) = 2
       /\ \A i \in 1..2 : /\ isdigit(strip(kernel_parts[i]))
                          /\ int(strip(kernel_parts[i])) > 0
       /\ int_ok(intensity_var)
       /\ int(intensity_var) > 0

\* apply_settings_changes() that runs _load_blur_settings again on the new
\* options and stores the result in the module globals.
apply_settings_changes_reload(new_config) ==
    LET r == load_blur_settings(new_config.blur_kernel, new_config.blur_intensity)
    IN [enable_blurring |-> get_boolean(new_config.enable_blurring, FALSE),
        BLUR_KERNEL |-> r.kernel,
        BLUR_INTENSITY |-> r.intensity]

\* apply_settings_changes(), lines 308 to 313, on the options just saved:
\* the attribute self.enable_blurring is read again, the globals
\* BLUR_KERNEL and BLUR_INTENSITY of processing.py are not assigned.
apply_settings_changes(new_config) ==
    [enable_blurring |-> get_boolean(new_config.enable_blurring, FALSE),
     BLUR_KERNEL |-> BLUR_KERNEL,
     BLUR_INTENSITY |-> BLUR_INTENSITY]

\* The options of section BLUR as the configuration file may hold them when
\* the program starts.
StartConfigs ==
    {[enable_blurring |-> e, blur_kernel |-> k, blur_intensity |-> s] :
        e \in ConfigBooleans,
        k \in {<<"1", "5", ",", "1", "5">>, <<"3", ",", "3">>},
        s \in {<<"3", "5">>, <<"7">>}}

\* After the imports and ScreenshotApp.__init__: the globals hold what
\* _load_blur_settings returned for the options at that time.
InitSettings ==
    /\ config \in StartConfigs
    /\ OCR_READER = None
    /\ screenshots = << >>
    /\ screenshot_titles = << >>
    /\ dialog = "none"
    /\ BLUR_KERNEL = load_blur_settings(config.blur_kernel, config.blur_intensity).kernel
    /\ BLUR_INTENSITY = load_blur_settings(config.blur_kernel, config.blur_intensity).intensity
    /\ call = [op |-> "none"]
    /\ pc = "start"
    /\ self = [enable_blurring |-> get_boolean(config.enable_blurring, FALSE)]
    /\ threads = None
    /\ keyboard = None
    /\ NoEnv

\* SettingsWindow._save_settings() with the blur fields as entered:
\* validation, config_manager.set for each option, save_config (written is
\* its result) and, when the file was written, apply_settings_changes().
SettingsSave ==
    \E blur_enabled \in BOOLEAN, kernel_var \in KernelEntries,
       intensity_var \in IntensityEntries, written \in BOOLEAN :
        /\ IF ~validate_settings(kernel_var, intensity_var)
           THEN /\ dialog' = "Validation Error"
                /\ UNCHANGED <<config, self, BLUR_KERNEL, BLUR_INTENSITY>>
           ELSE /\ config' = [enable_blurring |-> str(blur_enabled),
                              blur_kernel |-> kernel_var,
                              blur_intensity |-> str_int(int(intensity_var))]
                /\ IF written
                   THEN \E applied \in {apply_settings_changes(config')} :
                        /\ self' = [self EXCEPT !.enable_blurring = applied.enable_blurring]
                        /\ BLUR_KERNEL' = applied.BLUR_KERNEL
                        /\ BLUR_INTENSITY' = applied.BLUR_INTENSITY
                        /\ dialog' = "Settings Saved"
                   ELSE /\ dialog' = "Save Error"
                        /\ UNCHANGED <<self, BLUR_KERNEL, BLUR_INTENSITY>>
        /\ call' = NoCall("save_settings")
        /\ pc' = "save_settings"
        /\ UNCHANGED <<OCR_READER, screenshots, screenshot_titles, threads, keyboard,
                       env_vars>>

\* The screens captured while the settings are changed.
SettingsScenes == {SceneAccount, SceneBlank}

\* One call blur_sensitive_data(image) on one of these screens.
SettingsRedact ==
    \E scene \in SettingsScenes, init_ok \in BOOLEAN, read_ok \in BOOLEAN :
        \E r \in {blur_sensitive_data(scene.bitmap, init_ok, read_ok)} :
        /\ call' = [op |-> "redact", image |-> scene.bitmap,
                    reader_before |-> OCR_READER,
                    init_ok |-> init_ok, read_ok |-> read_ok,
                    ret |-> r.ret, detectors |-> r.detectors,
                    rules |-> r.rules, regions |-> r.regions,
                    boxes_blurred |-> r.boxes_blurred,
                    escapes |-> r.escapes, original |-> r.original,
                    constructed |-> r.constructed]
        /\ OCR_READER' = r.reader
        /\ pc' = "redact"
        /\ UNCHANGED <<config, screenshots, screenshot_titles, dialog, BLUR_KERNEL,
                       BLUR_INTENSITY, app_vars>>

NextSettings == SettingsSave \/ ConfigSet \/ SettingsRedact

SpecSettings == InitSettings /\ [][NextSettings]_vars

\* C22: the blur kernel and intensity loaded at import are the ones every
\* later blur uses: no step of the settings window, of config_manager.set or
\* of a redact call changes BLUR_KERNEL or BLUR_INTENSITY, whatever the
\* options now say; the flag enable_blurring is read from the options at
\* each redact call.
C22_BlurSettingsLoadedOnce ==
    /\ [][BLUR_KERNEL' = BLUR_KERNEL /\ BLUR_INTENSITY' = BLUR_INTENSITY]_vars
    /\ [](pc = "redact" =>
            /\ ~get_boolean(config.enable_blurring, FALSE) =>
                    (call.ret = call.image /\ call.detectors = {})
            /\ (get_boolean(config.enable_blurring, FALSE) /\ call.init_ok /\ call.read_ok) =>
                    call.detectors = {"easyocr"})

\* A redact call that blurred a region after the settings window saved
\* another kernel and intensity than the ones in use and switched blurring
\* on.
C22_Witness ==
    /\ pc = "redact"
    /\ config.blur_kernel = <<"3", ",", "3">>
    /\ config.blur_intensity = <<"7">>
    /\ BLUR_KERNEL = <<15, 15>>
    /\ BLUR_INTENSITY = 35
    /\ self.enable_blurring
    /\ call.regions # << >>
    /\ call.ret # call.image

-----------------------------------------------------------------------------
(* Auto-capture: toggle_auto_capture, called from the button on the UI     *)
(* thread and from the toggle hotkey on the keyboard library's callback    *)
(* thread, and the worker threads it starts.  Neither takes a lock, so the *)
(* threads interleave between any two accesses of self.is_capturing and    *)
(* self.stop_event.                                                        *)

\* The most toggle_auto_capture calls made in one run.
MaxToggles == 3

\* ConfigManager.get_int(section, key, fallback) on the raw value of the
\* option: getint raises ValueError for a value that is no integer, which
\* get_int answers with the fallback.
get_int(value, fallback) == IF int_ok(value) THEN int(value) ELSE fallback

\* The values of the option GENERAL/screenshot_interval.
IntervalStrings == {<<"5">>, <<"0">>}

InitAuto ==
    /\ config \in {[screenshot_interval |-> s] : s \in IntervalStrings}
    /\ OCR_READER = None
    /\ screenshots = << >>
    /\ screenshot_titles = << >>
    /\ dialog = "none"
    /\ BLUR_KERNEL = <<15, 15>>
    /\ BLUR_INTENSITY = 35
    /\ call = [toggles |-> 0, scheduled_by |-> 0]
    /\ pc = [t \in Threads |-> "idle"]
    /\ self = [is_capturing |-> FALSE, stop_event |-> FALSE,
               screenshot_interval |-> get_int(config.screenshot_interval, 10),
               destroyed |-> FALSE]
    /\ threads = << >>
    /\ keyboard = None
    /\ NoEnv

AutoFrame ==
    UNCHANGED <<config, OCR_READER, screenshots, screenshot_titles,
                BLUR_KERNEL, BLUR_INTENSITY, keyboard, env_vars>>

\* The button is pressed (t = "ui") or the hotkey (t = "hotkey"):
\* toggle_auto_capture is entered on that thread.
ToggleCall(t) ==
    /\ pc[t] = "idle"
    /\ ~self.destroyed
    /\ call.toggles < MaxToggles
    /\ call' = [call EXCEPT !.toggles = @ + 1]
    /\ pc' = [pc EXCEPT ![t] = "line230"]
    /\ UNCHANGED <<self, threads, dialog>>
    /\ AutoFrame

\* Line 230: if not self.is_capturing
ToggleTest(t) ==
    /\ pc[t] = "line230"
    /\ pc' = [pc EXCEPT ![t] = IF ~self.is_capturing THEN "line231" ELSE "line242"]
    /\ UNCHANGED <<self, threads, dialog, call>>
    /\ AutoFrame

\* Line 231: self.stop_event.clear()
ToggleClear(t) ==
    /\ pc[t] = "line231"
    /\ self' = [self EXCEPT !.stop_event = FALSE]
    /\ pc' = [pc EXCEPT ![t] = "line232"]
    /\ UNCHANGED <<threads, dialog, call>>
    /\ AutoFrame

\* Lines 232 to 238: the interval is read; if it is not positive the
\* handler shows "Invalid Interval" and returns, otherwise it starts a
\* worker thread.
ToggleStart(t) ==
    /\ pc[t] = "line232"
    /\ \E interval \in {get_int(config.screenshot_interval, 10)} :
        /\ self' = [self EXCEPT !.screenshot_interval = interval]
        /\ IF interval <= 0
           THEN /\ dialog' = "Invalid Interval"
                /\ pc' = [pc EXCEPT ![t] = "idle"]
                /\ UNCHANGED threads
           ELSE /\ threads' = Append(threads, "line216")
                /\ pc' = [pc EXCEPT ![t] = "line239"]
                /\ UNCHANGED dialog
    /\ UNCHANGED call
    /\ AutoFrame

\* Lines 239 and 245: self.is_capturing = True, then the button is updated
\* and the handler returns.
ToggleSet(t) ==
    /\ pc[t] = "line239"
    /\ self' = [self EXCEPT !.is_capturing = TRUE]
    /\ pc' = [pc EXCEPT ![t] = "idle"]
    /\ UNCHANGED <<threads, dialog, call>>
    /\ AutoFrame

\* Lines 242 and 245: self.stop_event.set(), then the button is updated and
\* the handler returns.
ToggleStop(t) ==
    /\ pc[t] = "line242"
    /\ self' = [self EXCEPT !.stop_event = TRUE]
    /\ pc' = [pc EXCEPT ![t] = "idle"]
    /\ UNCHANGED <<threads, dialog, call>>
    /\ AutoFrame

\* _auto_capture_thread, line 216: self.is_capturing = True
WorkerBegin(w) ==
    /\ w <= Len(threads)
    /\ threads[w] = "line216"
    /\ self' = [self EXCEPT !.is_capturing = TRUE]
    /\ threads' = [threads EXCEPT ![w] = "line219"]
    /\ UNCHANGED <<pc, dialog, call>>
    /\ AutoFrame

\* Lines 219 and 220: while not self.stop_event.is_set(), schedule a
\* capture on the UI thread.
WorkerLoop(w) ==
    /\ w <= Len(threads)
    /\ threads[w] = "line219"
    /\ IF ~self.stop_event
       THEN /\ call' = [call EXCEPT !.scheduled_by = w]
            /\ threads' = [threads EXCEPT ![w] = "line221"]
       ELSE /\ threads' = [threads EXCEPT ![w] = "line223"]
            /\ UNCHANGED call
    /\ UNCHANGED <<self, pc, dialog>>
    /\ AutoFrame

\* Line 221: self.stop_event.wait(interval) returns, because the event was
\* set or because the interval is over.
WorkerWait(w) ==
    /\ w <= Len(threads)
    /\ threads[w] = "line221"
    /\ threads' = [threads EXCEPT ![w] = "line219"]
    /\ UNCHANGED <<self, pc, dialog, call>>
    /\ AutoFrame

\* Lines 223 to 225: self.is_capturing = False, the button update is
\* scheduled and the thread ends.
WorkerEnd(w) ==
    /\ w <= Len(threads)
    /\ threads[w] = "line223"
    /\ self' = [self EXCEPT !.is_capturing = FALSE]
    /\ threads' = [threads EXCEPT ![w] = "ended"]
    /\ UNCHANGED <<pc, dialog, call>>
    /\ AutoFrame

\* close_app() on the UI thread, lines 345 to 349: the stop event is set
\* if self.is_capturing, the hotkeys are unregistered and the window is
\* destroyed.
close_app ==
    /\ pc["ui"] = "idle"
    /\ ~self.destroyed
    /\ self' = [self EXCEPT !.stop_event = IF self.is_capturing THEN TRUE ELSE @,
                            !.destroyed = TRUE]
    /\ UNCHANGED <<pc, threads, dialog, call>>
    /\ AutoFrame

ToggleStep(t) ==
    \/ ToggleTest(t)
    \/ ToggleClear(t)
    \/ ToggleStart(t)
    \/ ToggleSet(t)
    \/ ToggleStop(t)

WorkerStep(w) ==
    \/ WorkerBegin(w)
    \/ WorkerLoop(w)
    \/ WorkerWait(w)
    \/ WorkerEnd(w)

NextAuto ==
    \/ \E t \in Threads : ToggleCall(t) \/ ToggleStep(t)
    \/ \E w \in 1..MaxToggles : WorkerStep(w)
    \/ close_app

SpecAuto == InitAuto /\ [][NextAuto]_vars

\* Every thread that can take a step eventually takes it: a handler that
\* was entered runs to its end, and a worker goes on.
SpecAutoFair ==
    /\ SpecAuto
    /\ \A t \in Threads : WF_vars(ToggleStep(t))
    /\ \A w \in 1..MaxToggles : WF_vars(WorkerStep(w))

\* The worker threads that have been started and have not ended.
Alive == {w \in 1..Len(threads) : threads[w] # "ended"}

\* No toggle_auto_capture call is between its first and its last line.
NoToggleRunning == \A t \in Threads : pc[t] = "idle"

\* C23 as claimed: when no toggle_auto_capture call is running,
\* is_capturing is True only if a worker thread is alive (looked at while
\* the application is open).
C23_Original ==
    (NoToggleRunning /\ ~self.destroyed /\ self.is_capturing) => Alive # {}

\* C24 as claimed: at most one worker thread is alive at any time, and a
\* worker is only started with a positive interval.
C24_Original ==
    /\ Cardinality(Alive) <= 1
    /\ threads # << >> => self.screenshot_interval > 0

\* A stop is requested while auto-capture runs: the event is set and a
\* worker is in its loop.
StopRequested ==
    /\ self.stop_event
    /\ \E w \in Alive : threads[w] \in {"line219", "line221"}

\* C25 as claimed: once a stop is requested while auto-capture runs, every
\* worker eventually has ended and is_capturing is False.
C25_Original ==
    StopRequested ~> (Alive = {} /\ ~self.is_capturing)

-----------------------------------------------------------------------------
(* The two lists under concurrent handlers.  The buttons run               *)
(* take_and_store_screenshot and clear_screenshots on the UI thread; the   *)
(* hotkeys run take_and_store_screenshot and remove_last_screenshot on the *)
(* keyboard library's callback thread (hotkeys.py, lines 49 and 54).  No   *)
(* handler takes a lock, so the threads interleave between any two         *)
(* accesses of self.screenshots and self.screenshot_titles.                *)

\* The most handler calls made in one run.
MaxOps == 3

\* The handlers each thread can run.
Handlers(t) ==
    IF t = "ui" THEN {"take", "clear"} ELSE {"take", "remove_last"}

\* A stored image: the PNG bytes of capture number id.
Stored(id) == <<"PNG", id>>

\* The title of line 169 to 171; capture records which capture it was made
\* for (the title string itself does not say).
TitleOf(n, auto_mode, id) == [number |-> n, auto |-> auto_mode, capture |-> id]

InitStore ==
    /\ config = DefaultConfig
    /\ OCR_READER = None
    /\ screenshots = << >>
    /\ screenshot_titles = << >>
    /\ dialog = "none"
    /\ BLUR_KERNEL = <<15, 15>>
    /\ BLUR_INTENSITY = 35
    /\ call = [ops |-> 0, img_io |-> [t \in Threads |-> None],
               title |-> [t \in Threads |-> None]]
    /\ pc = [t \in Threads |-> "idle"]
    /\ NoApp

StoreFrame ==
    UNCHANGED <<config, OCR_READER, BLUR_KERNEL, BLUR_INTENSITY, app_vars>>

\* A button is pressed or a hotkey fires: thread t enters a handler.  For
\* take_and_store_screenshot, lines 147 to 168 (capture, blurring off,
\* save_image_to_bytes) touch neither list; img_io is their result, None
\* when the capture or the conversion failed.
StoreCall(t) ==
    /\ pc[t] = "idle"
    /\ call.ops < MaxOps
    /\ \E h \in Handlers(t), ok \in BOOLEAN :
        /\ h # "take" => ok
        /\ call' = [call EXCEPT !.ops = @ + 1,
                                !.img_io[t] = IF h = "take" /\ ok
                                              THEN Stored(call.ops + 1) ELSE None,
                                !.title[t] = None]
        /\ pc' = [pc EXCEPT ![t] = CASE h = "take" -> "line168"
                                     [] h = "clear" -> "line279"
                                     [] h = "remove_last" -> "line191"]
    /\ UNCHANGED <<screenshots, screenshot_titles, dialog>>
    /\ StoreFrame

\* Lines 168 to 171: if img_io, the title is made from len(self.screenshots);
\* otherwise "Capture Error" or "Storage Error" is shown.
TakeTitle(t) ==
    /\ pc[t] = "line168"
    /\ IF call.img_io[t] = None
       THEN /\ dialog' = "Error"
            /\ pc' = [pc EXCEPT ![t] = "idle"]
            /\ UNCHANGED call
       ELSE /\ call' = [call EXCEPT !.title[t] =
                            TitleOf(Len(screenshots) + 1, FALSE, call.img_io[t][2])]
            /\ pc' = [pc EXCEPT ![t] = "line172"]
            /\ UNCHANGED dialog
    /\ UNCHANGED <<screenshots, screenshot_titles>>
    /\ StoreFrame

\* Line 172: self.screenshots.append(img_io)
TakeAppendImage(t) ==
    /\ pc[t] = "line172"
    /\ screenshots' = Append(screenshots, call.img_io[t])
    /\ pc' = [pc EXCEPT ![t] = "line173"]
    /\ UNCHANGED <<screenshot_titles, dialog, call>>
    /\ StoreFrame

\* Line 173: self.screenshot_titles.append(title); then the history view
\* is updated and the handler returns.
TakeAppendTitle(t) ==
    /\ pc[t] = "line173"
    /\ screenshot_titles' = Append(screenshot_titles, call.title[t])
    /\ pc' = [pc EXCEPT ![t] = "idle"]
    /\ UNCHANGED <<screenshots, dialog, call>>
    /\ StoreFrame

\* remove_last_screenshot, line 191: if not self.screenshots
RemoveTest(t) ==
    /\ pc[t] = "line191"
    /\ IF screenshots = << >>
       THEN /\ dialog' = "Info"
            /\ pc' = [pc EXCEPT ![t] = "idle"]
       ELSE /\ pc' = [pc EXCEPT ![t] = "line197"]
            /\ UNCHANGED dialog
    /\ UNCHANGED <<screenshots, screenshot_titles, call>>
    /\ StoreFrame

\* Line 197: self.screenshot_titles.pop(); on an empty list IndexError is
\* raised and caught at line 209.
RemovePopTitle(t) ==
    /\ pc[t] = "line197"
    /\ IF screenshot_titles = << >>
       THEN /\ dialog' = "Info"
            /\ pc' = [pc EXCEPT ![t] = "idle"]
            /\ UNCHANGED screenshot_titles
       ELSE /\ screenshot_titles' = SubSeq(screenshot_titles, 1, Len(screenshot_titles) - 1)
            /\ pc' = [pc EXCEPT ![t] = "line198"]
            /\ UNCHANGED dialog
    /\ UNCHANGED <<screenshots, call>>
    /\ StoreFrame

\* Line 198: self.screenshots.pop(); on an empty list IndexError is raised
\* and caught at line 209.  Then the history view is updated.
RemovePopImage(t) ==
    /\ pc[t] = "line198"
    /\ IF screenshots = << >>
       THEN /\ dialog' = "Info"
            /\ UNCHANGED screenshots
       ELSE /\ screenshots' = SubSeq(screenshots, 1, Len(screenshots) - 1)
            /\ UNCHANGED dialog
    /\ pc' = [pc EXCEPT ![t] = "idle"]
    /\ UNCHANGED <<screenshot_titles, call>>
    /\ StoreFrame

\* clear_screenshots, line 279: if not self.screenshots
ClearTest(t) ==
    /\ pc[t] = "line279"
    /\ IF screenshots = << >>
       THEN /\ dialog' = "Info"
            /\ pc' = [pc EXCEPT ![t] = "idle"]
       ELSE /\ pc' = [pc EXCEPT ![t] = "line283"]
            /\ UNCHANGED dialog
    /\ UNCHANGED <<screenshots, screenshot_titles, call>>
    /\ StoreFrame

\* Line 283: self.screenshots.clear()
ClearImages(t) ==
    /\ pc[t] = "line283"
    /\ screenshots' = << >>
    /\ pc' = [pc EXCEPT ![t] = "line284"]
    /\ UNCHANGED <<screenshot_titles, dialog, call>>
    /\ StoreFrame

\* Line 284: self.screenshot_titles.clear(); then the history view is
\* updated and "Cleared" is shown.
ClearTitles(t) ==
    /\ pc[t] = "line284"
    /\ screenshot_titles' = << >>
    /\ dialog' = "Cleared"
    /\ pc' = [pc EXCEPT ![t] = "idle"]
    /\ UNCHANGED <<screenshots, call>>
    /\ StoreFrame

NextStore ==
    \E t \in Threads :
        \/ StoreCall(t)
        \/ TakeTitle(t)
        \/ TakeAppendImage(t)
        \/ TakeAppendTitle(t)
        \/ RemoveTest(t)
        \/ RemovePopTitle(t)
        \/ RemovePopImage(t)
        \/ ClearTest(t)
        \/ ClearImages(t)
        \/ ClearTitles(t)

SpecStore == InitStore /\ [][NextStore]_vars

\* No capture, remove-last or clear handler is between its first and its
\* last line.
NoHandlerRunning == \A t \in Threads : pc[t] = "idle"

\* C26 as claimed: the title at position k is numbered k, also when
\* captures and removals run concurrently on the hotkey thread and the UI
\* thread.
C26_Original ==
    NoHandlerRunning =>
        \A k \in 1..Len(screenshot_titles) : screenshot_titles[k].number = k

\* C27 as claimed: whenever no handler is running, the two lists have the
\* same length and the i-th title is the title of the i-th image, for every
\* interleaving of the three handlers.
C27_Original ==
    NoHandlerRunning =>
        /\ Len(screenshots) = Len(screenshot_titles)
        /\ \A i \in 1..Len(screenshots) :
            screenshots[i] = Stored(screenshot_titles[i].capture)

-----------------------------------------------------------------------------
(* The hotkey listener: ScreenshotApp.__init__ creates and starts it,      *)
(* apply_settings_changes restarts it.  Here threads is the set of the     *)
(* listener threads alive and keyboard the set of the hotkeys registered   *)
(* with the keyboard library, each with the listener that registered it.   *)

\* The most GlobalHotkeys objects created in one run.
MaxListeners == 3

\* An option that is not in the configuration.
Absent == <<None>>

\* ConfigManager.get(section, key, fallback) on the raw value of the option.
get(value, fallback) == IF value = Absent THEN fallback ELSE value

KeyCtrlShiftS == <<"c", "t", "r", "l", "+", "s", "h", "i", "f", "t", "+", "s">>

KeyCtrlShiftZ == <<"c", "t", "r", "l", "+", "s", "h", "i", "f", "t", "+", "z">>

KeyCtrlShiftA == <<"c", "t", "r", "l", "+", "s", "h", "i", "f", "t", "+", "a">>

KeyF9 == <<"f", "9">>

KeyTypo == <<"c", "t", "r", "l", "+", "s", "h", "f", "i", "t", "+", "s">>

\* keyboard.add_hotkey(key, ...) returns rather than raises ValueError: the
\* combination names keys the library knows.
valid_hotkey(key) == key \in {KeyCtrlShiftS, KeyCtrlShiftZ, KeyCtrlShiftA, KeyF9}

\* self.hotkeys = None
NoHotkeys == [id |-> 0]

\* GlobalHotkeys(app), lines 14 to 33: the n-th object created, with the
\* combinations of options.
GlobalHotkeys(n, options) ==
    [id |-> n,
     screenshot_key |-> get(options.screenshot_hotkey, KeyCtrlShiftS),
     undo_key |-> get(options.undo_hotkey, KeyCtrlShiftZ),
     toggle_auto_key |-> get(options.toggle_auto_capture, KeyCtrlShiftA)]

\* _register_hotkeys(), lines 44 to 69, from the i-th of the three
\* combinations on: an empty one is skipped, and the first one add_hotkey
\* rejects ends the registration (ValueError, caught at line 65).
RECURSIVE register_from(_, _)
register_from(h, i) ==
    LET keys == <<h.screenshot_key, h.undo_key, h.toggle_auto_key>>
        handlers == <<"take_and_store_screenshot", "remove_last_screenshot",
                      "toggle_auto_capture">>
    IN IF i > 3 THEN {}
       ELSE IF keys[i] = << >> THEN register_from(h, i + 1)
       ELSE IF ~valid_hotkey(keys[i]) THEN {}
       ELSE {[key |-> keys[i], handler |-> handlers[i], owner |-> h.id]}
            \cup register_from(h, i + 1)

\* GlobalHotkeys.start(), lines 113 to 130, with the registry and the live
\* listener threads before it: the registry and the threads after it.
start(h, options, registry, alive) ==
    IF ~get_boolean(options.enabled, TRUE) \/ h.id \in alive
    THEN [keyboard |-> registry, threads |-> alive]
    ELSE [keyboard |-> registry \cup register_from(h, 1),
          threads |-> alive \cup {h.id}]

\* GlobalHotkeys.stop(), lines 133 to 148: if the listener thread is alive,
\* keyboard.remove_all_hotkeys() and the thread ends.
stop(h, registry, alive) ==
    IF h.id \in alive
    THEN [keyboard |-> {}, threads |-> alive \ {h.id}]
    ELSE [keyboard |-> registry, threads |-> alive]

\* hotkeys_changed of lines 317 to 328 that compares the enabled state only.
hotkeys_changed_enabled_only(options) ==
    get_boolean(options.enabled, TRUE) # self.enable_hotkeys

\* hotkeys_changed of lines 317 to 328: the enabled state differs from
\* self.enable_hotkeys or, if there is a listener, one of its combinations
\* differs from the option.
hotkeys_changed(options) ==
    \/ get_boolean(options.enabled, TRUE) # self.enable_hotkeys
    \/ /\ self.hotkeys # NoHotkeys
       /\ <<get(options.screenshot_hotkey, << >>), get(options.undo_hotkey, << >>),
            get(options.toggle_auto_capture, << >>)>>
          # <<self.hotkeys.screenshot_key, self.hotkeys.undo_key,
              self.hotkeys.toggle_auto_key>>

\* The options of section HOTKEYS as the configuration file may hold them
\* when the program starts.
StartHotkeyConfigs ==
    {[enabled |-> e, screenshot_hotkey |-> k, undo_hotkey |-> k2,
      toggle_auto_capture |-> k3] :
        e \in ConfigBooleans,
        k \in {Absent, KeyF9},
        k2 \in {Absent},
        k3 \in {Absent, KeyCtrlShiftA}}

\* After ScreenshotApp.__init__, lines 53 and 62 to 67.
InitHotkeys ==
    /\ config \in StartHotkeyConfigs
    /\ OCR_READER = None
    /\ screenshots = << >>
    /\ screenshot_titles = << >>
    /\ dialog = "none"
    /\ BLUR_KERNEL = <<15, 15>>
    /\ BLUR_INTENSITY = 35
    /\ pc = "start"
    /\ NoEnv
    /\ IF get_boolean(config.enabled, TRUE)
       THEN /\ self = [enable_hotkeys |-> TRUE, hotkeys |-> GlobalHotkeys(1, config)]
            /\ keyboard = start(GlobalHotkeys(1, config), config, {}, {}).keyboard
            /\ threads = start(GlobalHotkeys(1, config), config, {}, {}).threads
            /\ call = [op |-> "none", listeners |-> 1]
       ELSE /\ self = [enable_hotkeys |-> FALSE, hotkeys |-> NoHotkeys]
            /\ keyboard = {}
            /\ threads = {}
            /\ call = [op |-> "none", listeners |-> 0]

\* The values of the three hotkey fields of the settings window.
ScreenshotKeyEntries ==
    {KeyCtrlShiftS, <<"F", "9">>, KeyTypo, << >>}

UndoKeyEntries == {KeyCtrlShiftZ}

ToggleKeyEntries == {KeyCtrlShiftA, KeyF9}

\* SettingsWindow._save_settings() with the hotkey fields as entered:
\* validation (no field empty if hotkeys are enabled), config_manager.set
\* for each option with the combination in lower case, save_config (written
\* is its result) and, when the file was written,
\* apply_settings_changes(), lines 316 to 339.
HotkeySettingsSave ==
    /\ call.listeners < MaxListeners
    /\ \E enabled_var \in BOOLEAN, hk_screenshot \in ScreenshotKeyEntries,
          hk_undo \in UndoKeyEntries, hk_toggle \in ToggleKeyEntries,
          written \in BOOLEAN :
        IF enabled_var /\ << >> \in {hk_screenshot, hk_undo, hk_toggle}
        THEN /\ dialog' = "Validation Error"
             /\ pc' = "save_settings"
             /\ UNCHANGED <<config, self, threads, keyboard, call>>
        ELSE /\ config' = [enabled |-> str(enabled_var),
                           screenshot_hotkey |-> lower(hk_screenshot),
                           undo_hotkey |-> lower(hk_undo),
                           toggle_auto_capture |-> lower(hk_toggle)]
             /\ IF ~written
                THEN /\ dialog' = "Save Error"
                     /\ pc' = "save_settings"
                     /\ UNCHANGED <<self, threads, keyboard, call>>
                ELSE /\ dialog' = "Settings Saved"
                     /\ pc' = "apply_settings_changes"
                     /\ LET new_hotkeys_enabled == get_boolean(config'.enabled, TRUE)
                            stopped == stop(self.hotkeys, keyboard, threads)
                            created == GlobalHotkeys(call.listeners + 1, config')
                            started == start(created, config', stopped.keyboard,
                                             stopped.threads)
                        IN IF hotkeys_changed(config')
                              \/ (new_hotkeys_enabled /\ self.hotkeys = NoHotkeys)
                           THEN IF new_hotkeys_enabled
                                THEN /\ self' = [enable_hotkeys |-> TRUE,
                                                 hotkeys |-> created]
                                     /\ keyboard' = started.keyboard
                                     /\ threads' = started.threads
                                     /\ call' = [op |-> "save_settings",
                                                 listeners |-> call.listeners + 1]
                                ELSE /\ self' = [enable_hotkeys |-> FALSE,
                                                 hotkeys |-> NoHotkeys]
                                     /\ keyboard' = stopped.keyboard
                                     /\ threads' = stopped.threads
                                     /\ call' = [call EXCEPT !.op = "save_settings"]
                           ELSE /\ UNCHANGED <<self, threads, keyboard>>
                                /\ call' = [call EXCEPT !.op = "save_settings"]
    /\ UNCHANGED <<OCR_READER, screenshots, screenshot_titles, BLUR_KERNEL,
                   BLUR_INTENSITY, env_vars>>

NextHotkeys == HotkeySettingsSave

SpecHotkeys == InitHotkeys /\ [][NextHotkeys]_vars

\* The application has just started or apply_settings_changes has just
\* returned.
Applied == pc \in {"start", "apply_settings_changes"}

\* The combinations the configuration gives for the three handlers.
ConfiguredKeys ==
    <<get(config.screenshot_hotkey, KeyCtrlShiftS),
      get(config.undo_hotkey, KeyCtrlShiftZ),
      get(config.toggle_auto_capture, KeyCtrlShiftA)>>

\* There is a listener if and only if hotkeys are enabled; its combinations
\* are the configured ones; its thread is the only listener thread alive
\* and no hotkey of an earlier listener is registered.
ListenerFollowsConfig ==
    /\ (self.hotkeys # NoHotkeys) <=> get_boolean(config.enabled, TRUE)
    /\ self.hotkeys # NoHotkeys =>
        /\ <<self.hotkeys.screenshot_key, self.hotkeys.undo_key,
             self.hotkeys.toggle_auto_key>> = ConfiguredKeys
        /\ threads = {self.hotkeys.id}
        /\ \A r \in keyboard : r.owner = self.hotkeys.id
    /\ self.hotkeys = NoHotkeys => (threads = {} /\ keyboard = {})

\* C28 as claimed: after the start and after every apply_settings_changes
\* there is a listener iff hotkeys are enabled, bound to the configured
\* combinations: each of them is registered with the keyboard library for
\* its handler; every earlier listener is stopped and unregistered.
C28_Original ==
    Applied =>
        /\ ListenerFollowsConfig
        /\ self.hotkeys # NoHotkeys =>
            {r.key : r \in keyboard} = {ConfiguredKeys[i] : i \in 1..3}

\* C28, amended: after the start and after every apply_settings_changes
\* there is a listener iff hotkeys are enabled; its three combinations are
\* the configured ones; every earlier listener is stopped and
\* unregistered; the combinations are registered with the keyboard library
\* if the library accepts all three, and otherwise only those before the
\* first one it rejects.
C28_ListenerFollowsConfig ==
    Applied =>
        /\ ListenerFollowsConfig
        /\ self.hotkeys # NoHotkeys =>
            /\ (\A i \in 1..3 : valid_hotkey(ConfiguredKeys[i])) =>
                    {r.key : r \in keyboard} = {ConfiguredKeys[i] : i \in 1..3}
            /\ \A i \in 1..3 :
                ~valid_hotkey(ConfiguredKeys[i]) =>
                    \A r \in keyboard :
                        \E j \in 1..(i - 1) : r.key = ConfiguredKeys[j]

\* apply_settings_changes has replaced a running listener by one with
\* another screenshot combination, registered in its place.
C28_Witness ==
    /\ pc = "apply_settings_changes"
    /\ self.hotkeys.id = 2
    /\ self.hotkeys.screenshot_key = KeyF9
    /\ threads = {2}
    /\ [key |-> KeyF9, handler |-> "take_and_store_screenshot", owner |-> 2] \in keyboard
    /\ Cardinality(keyboard) = 3


(***************************************************************************)
(* The secrets of EnvManager (src/src/config/env_manager.py).  env_file    *)
(* is the file self.env_file as the sequence of its lines: a binding       *)
(* [key, value] for a line KEY='value' as set_key writes it, or a comment. *)
(* A binding's text starts with "NAME=" exactly when its key is NAME, and  *)
(* no comment's text does.  environ is os.environ restricted to the names  *)
(* of the secrets.  A value is a text without "${": python-dotenv reads    *)
(* back what set_key wrote.  The file exists: __init__ found it or created *)
(* it.  call.last is, for each name, what the last call of set_secret or   *)
(* remove_secret that returned True did to it.                             *)
(***************************************************************************)

\* The secrets the settings window sets (settings_window.py, lines 171-174).
SecretNames == {"JIRA_API_TOKEN", "JTMF_API_TOKEN"}

TokenA == <<"a">>

TokenB == <<"b">>

\* The values a caller passes to set_secret.
SecretValues == {TokenA, TokenB, << >>}

\* What call.last holds for a name no call has set or removed with success
\* (or has set to the empty value), and for a name removed with success.
Unknown == <<"unknown">>

Removed == <<"removed">>

\* The two lines _create_env_file_if_needed writes into a new file.
CommentLine == [key |-> "#", value |-> << >>]

\* dotenv_values(path): the value of each name's last binding in the file.
RECURSIVE dotenv_values_from(_, _, _)
dotenv_values_from(lines, i, values) ==
    IF i > Len(lines) THEN values
    ELSE dotenv_values_from(lines, i + 1,
            IF lines[i].key \in SecretNames
            THEN [values EXCEPT ![lines[i].key] = lines[i].value]
            ELSE values)

dotenv_values(lines) ==
    dotenv_values_from(lines, 1, [n \in SecretNames |-> Absent])

\* load_dotenv(path, override=True): every binding of the file is assigned
\* to os.environ; a name the file does not bind keeps its value.
load_dotenv(lines, env) ==
    LET values == dotenv_values(lines)
    IN [n \in SecretNames |-> IF values[n] # Absent THEN values[n] ELSE env[n]]

\* set_key(path, key, value): the lines that bind the key are replaced by
\* the new binding; if there is none, the binding is appended.
set_key(lines, key_to_set, value_to_set) ==
    LET line_out == [key |-> key_to_set, value |-> value_to_set]
    IN IF \E i \in 1..Len(lines) : lines[i].key = key_to_set
       THEN [i \in 1..Len(lines) |->
                IF lines[i].key = key_to_set THEN line_out ELSE lines[i]]
       ELSE Append(lines, line_out)

\* EnvManager.load(): the environment after it (the file exists).
load(lines, env) == load_dotenv(lines, env)

\* EnvManager.set_secret(secret_name, secret_value).  write_ok says whether
\* set_key could write the file; otherwise it raises IOError.
set_secret(secret_name, secret_value, write_ok) ==
    IF write_ok
    THEN LET lines == set_key(env_file, secret_name, secret_value)
         IN [ret |-> TRUE, env_file |-> lines, environ |-> load(lines, environ)]
    ELSE [ret |-> FALSE, env_file |-> env_file, environ |-> environ]

\* EnvManager.get_secret(secret_name): os.environ first, then the file; an
\* empty value counts as missing.  Absent stands for None.
get_secret(secret_name) ==
    LET secret == environ[secret_name]
        values == dotenv_values(env_file)
    IN IF secret # Absent /\ secret # << >> THEN secret
       ELSE IF values[secret_name] # Absent /\ values[secret_name] # << >>
            THEN values[secret_name]
            ELSE Absent

\* EnvManager.remove_secret(secret_name).  write_ok says whether the file
\* could be opened for writing; otherwise open raises IOError.
remove_secret(secret_name, write_ok) ==
    IF ~write_ok
    THEN [ret |-> FALSE, env_file |-> env_file, environ |-> environ]
    ELSE LET found == \E i \in 1..Len(env_file) : env_file[i].key = secret_name
             lines == SelectSeq(env_file, LAMBDA line : line.key # secret_name)
         IN IF found
            THEN [ret |-> TRUE, env_file |-> lines, environ |-> load(lines, environ)]
            ELSE [ret |-> FALSE, env_file |-> lines, environ |-> environ]

\* The environment the process was started with.
StartEnvirons ==
    {[n \in SecretNames |-> Absent],
     [n \in SecretNames |-> IF n = "JTMF_API_TOKEN" THEN TokenB ELSE Absent]}

\* The .env file __init__ finds, or the one it creates.
StartEnvFiles ==
    {<<CommentLine, CommentLine>>,
     <<[key |-> "JIRA_API_TOKEN", value |-> TokenA]>>}

\* EnvManager.__init__(): a file that was found is loaded, a new one is not.
InitEnv ==
    /\ config = [enable_blurring |-> "True"]
    /\ OCR_READER = None
    /\ screenshots = << >>
    /\ screenshot_titles = << >>
    /\ dialog = "none"
    /\ BLUR_KERNEL = <<15, 15>>
    /\ BLUR_INTENSITY = 35
    /\ self = None
    /\ threads = None
    /\ keyboard = None
    /\ pc = "start"
    /\ call = [op |-> "none", name |-> None, ret |-> None,
               last |-> [n \in SecretNames |-> Unknown]]
    /\ env_file \in StartEnvFiles
    /\ \E env \in StartEnvirons :
        environ = IF env_file = <<CommentLine, CommentLine>> THEN env
                  ELSE load(env_file, env)

EnvFrame ==
    UNCHANGED <<config, OCR_READER, screenshots, screenshot_titles, dialog,
                BLUR_KERNEL, BLUR_INTENSITY, self, threads, keyboard>>

SetSecretCall ==
    /\ \E secret_name \in SecretNames, secret_value \in SecretValues,
          write_ok \in BOOLEAN :
        \E r \in {set_secret(secret_name, secret_value, write_ok)} :
            /\ env_file' = r.env_file
            /\ environ' = r.environ
            /\ call' = [op |-> "set_secret", name |-> secret_name, ret |-> r.ret,
                        last |-> IF r.ret
                                 THEN [call.last EXCEPT ![secret_name] =
                                         IF secret_value # << >> THEN secret_value
                                         ELSE Unknown]
                                 ELSE call.last]
    /\ pc' = "set_secret"
    /\ EnvFrame

RemoveSecretCall ==
    /\ \E secret_name \in SecretNames, write_ok \in BOOLEAN :
        \E r \in {remove_secret(secret_name, write_ok)} :
            /\ env_file' = r.env_file
            /\ environ' = r.environ
            /\ call' = [op |-> "remove_secret", name |-> secret_name, ret |-> r.ret,
                        last |-> IF r.ret
                                 THEN [call.last EXCEPT ![secret_name] = Removed]
                                 ELSE call.last]
    /\ pc' = "remove_secret"
    /\ EnvFrame

LoadCall ==
    /\ environ' = load(env_file, environ)
    /\ call' = [call EXCEPT !.op = "load", !.name = None, !.ret = TRUE]
    /\ pc' = "load"
    /\ UNCHANGED env_file
    /\ EnvFrame

GetSecretCall ==
    /\ \E secret_name \in SecretNames :
        call' = [call EXCEPT !.op = "get_secret", !.name = secret_name,
                             !.ret = get_secret(secret_name)]
    /\ pc' = "get_secret"
    /\ UNCHANGED env_vars
    /\ EnvFrame

NextEnv == SetSecretCall \/ RemoveSecretCall \/ LoadCall \/ GetSecretCall

SpecEnv == InitEnv /\ [][NextEnv]_vars

\* get_secret after the last successful set_secret of the name, with a
\* non-empty value and no successful remove_secret since, returns the value.
SetThenGet ==
    (pc = "get_secret" /\ call.last[call.name] \in SecretValues)
        => call.ret = call.last[call.name]

\* get_secret after a successful remove_secret of the name, with no
\* successful set_secret since, returns None.
RemoveThenGet ==
    (pc = "get_secret" /\ call.last[call.name] = Removed)
        => call.ret = Absent

\* C30: for every secret name, get_secret returns the value of the last
\* set_secret that returned True with a non-empty value, and returns None
\* after a remove_secret that returned True until set_secret succeeds for
\* the name again, over every sequence of set_secret, remove_secret, load
\* and get_secret calls on one EnvManager.
C30_Original == SetThenGet /\ RemoveThenGet

=============================================================================
